---- MODULE Spec2Model ----
(***************************************************************************)
(* Skill Evaluation & Lifecycle Engine of self-evolution-system:           *)
(*   - SkillRegistry           (src/agent/skills/registry.ts)              *)
(*   - SimpleSchemaValidator   (src/agent/skills/validator.ts)             *)
(*   - MetricsScorer           (src/agent/evaluation/metrics.ts)           *)
(*                                                                         *)
(* Conventions.                                                            *)
(*   - A JavaScript value that may be missing is a tagged tuple:           *)
(*     Absent, Undefined, Null, or Val(v).                                 *)
(*   - Skill names are sequences of one-character strings, so that         *)
(*     String.prototype.includes and the name pattern are computed.        *)
(*   - A JavaScript number is an exact rational <<n, d>> in lowest terms   *)
(*     with d > 0; IEEE-754 rounding is not modelled.                      *)
(*   - A Map is a function whose DOMAIN is the key set; a Set is a set.    *)
(*     Map iteration order is not modelled: list() is the set of the       *)
(*     elements of the array the code returns.                             *)
(***************************************************************************)
EXTENDS Integers, Sequences, FiniteSets, TLC

VARIABLES skills, intentIndex, statusIndex, lastOp, config, lastEval,
          records, lastCalc,
          policyConfig, pendingApprovals, executionStats, now, nextId, lastPolicy

vars == <<skills, intentIndex, statusIndex, lastOp, config, lastEval,
          records, lastCalc,
          policyConfig, pendingApprovals, executionStats, now, nextId, lastPolicy>>

registryVars == <<skills, intentIndex, statusIndex, lastOp>>

scorerVars == <<config, lastEval>>

collectorVars == <<records, lastCalc>>

policyVars == <<policyConfig, pendingApprovals, executionStats, now, nextId, lastPolicy>>

(***************************************************************************)
(* JavaScript values                                                       *)
(***************************************************************************)
Absent == <<"absent">>

Undefined == <<"undefined">>

Null == <<"null">>

Val(v) == <<"val", v>>

\* a value of the JavaScript type t where the schema declares another type
WrongType(t) == <<"wrongtype", t>>

\* value !== undefined && value !== null (a missing key reads as undefined)
IsPresent(x) == x[1] \in {"val", "wrongtype"}

\* value === undefined (a missing key reads as undefined)
IsUndefined(x) == x[1] \in {"absent", "undefined"}

ValueOf(x) == x[2]

(***************************************************************************)
(* Exact rational arithmetic for JavaScript numbers                        *)
(***************************************************************************)
Abs(n) == IF n < 0 THEN -n ELSE n

RECURSIVE GCD(_, _)
GCD(a, b) == IF b = 0 THEN a ELSE GCD(b, a % b)

Rat(n, d) ==
  LET g == GCD(Abs(n), Abs(d))
      s == IF d < 0 THEN -1 ELSE 1
  IN  <<(s * n) \div g, (s * d) \div g>>

RAdd(a, b) == Rat(a[1] * b[2] + b[1] * a[2], a[2] * b[2])

RSub(a, b) == Rat(a[1] * b[2] - b[1] * a[2], a[2] * b[2])

RMul(a, b) == Rat(a[1] * b[1], a[2] * b[2])

RDiv(a, b) == Rat(a[1] * b[2], a[2] * b[1])

RLe(a, b) == a[1] * b[2] <= b[1] * a[2]

RLt(a, b) == a[1] * b[2] < b[1] * a[2]

RGe(a, b) == RLe(b, a)

RMax(a, b) == IF RLe(a, b) THEN b ELSE a

RMin(a, b) == IF RLe(a, b) THEN a ELSE b

Zero == <<0, 1>>

One == <<1, 1>>

(***************************************************************************)
(* Metadata Validator                                                      *)
(***************************************************************************)
Digits == {"0", "1", "2", "3", "4", "5", "6", "7", "8", "9"}

NameChars ==
  Digits \cup {"-"}
    \cup {"a", "b", "c", "d", "e", "f", "g", "h", "i", "j", "k", "l", "m",
          "n", "o", "p", "q", "r", "s", "t", "u", "v", "w", "x", "y", "z"}

\* RegExp('^[a-z0-9-]+$').test(value); over the alphabet NameChars
NamePattern(v) == Len(v) >= 1 /\ \A k \in 1..Len(v) : v[k] \in NameChars

\* RegExp('\d+\.\d+\.\d+(-.+)?').test(value): the value contains
\* digits "." digits "." digits (the optional suffix never decides a search)
SemVerPattern(v) ==
  \E i \in 1..Len(v) : \E j \in 1..Len(v) :
    /\ i > 1 /\ j > i + 1 /\ j < Len(v)
    /\ v[i] = "." /\ v[j] = "."
    /\ v[i - 1] \in Digits /\ v[j + 1] \in Digits
    /\ \A k \in (i + 1)..(j - 1) : v[k] \in Digits

PatternTest(pattern, v) ==
  CASE pattern = "^[a-z0-9-]+$" -> NamePattern(v)
    [] pattern = "\\d+\\.\\d+\\.\\d+(-.+)?" -> SemVerPattern(v)
    [] OTHER -> TRUE

NoPattern == ""

StatusEnum == {"experimental", "production", "retired"}

\* meta-schema.json: required
SchemaRequired == <<"name", "version", "intent", "author", "created_at">>

\* meta-schema.json: properties. minimum/maximum are Absent or Val(rational),
\* enum is {} when the property declares none.
Prop(key, type, pattern, minimum, maximum, enum, uniqueItems, hasDefault) ==
  [key |-> key, type |-> type, pattern |-> pattern, minimum |-> minimum,
   maximum |-> maximum, enum |-> enum, uniqueItems |-> uniqueItems,
   hasDefault |-> hasDefault]

SchemaProperties ==
  << Prop("name", "string", "^[a-z0-9-]+$", Absent, Absent, {}, FALSE, FALSE),
     Prop("version", "string", "\\d+\\.\\d+\\.\\d+(-.+)?", Absent, Absent, {}, FALSE, FALSE),
     Prop("intent", "string", NoPattern, Absent, Absent, {}, FALSE, FALSE),
     Prop("author", "string", NoPattern, Absent, Absent, {}, FALSE, FALSE),
     Prop("created_at", "string", NoPattern, Absent, Absent, {}, FALSE, FALSE),
     Prop("tags", "array", NoPattern, Absent, Absent, {}, TRUE, FALSE),
     Prop("cost_estimate", "number", NoPattern, Val(Zero), Absent, {}, FALSE, FALSE),
     Prop("success_threshold", "number", NoPattern, Val(Zero), Val(One), {}, FALSE, FALSE),
     Prop("status", "string", NoPattern, Absent, Absent, StatusEnum, FALSE, TRUE) >>

SchemaAdditionalProperties == FALSE

\* Array.isArray(value) ? 'array' : typeof value
ActualType(propType, value) ==
  IF value[1] = "wrongtype" THEN value[2] ELSE propType

\* new Set(value).size !== value.length
HasDuplicates(arr) == Cardinality({arr[k] : k \in 1..Len(arr)}) # Len(arr)

\* SimpleSchemaValidator.validateType: <<>> for null, else one error
validateType(field, value, propSchema) ==
  IF ActualType(propSchema.type, value) # propSchema.type
    THEN << <<"type", field>> >>
  ELSE IF propSchema.type = "array" /\ propSchema.uniqueItems
            /\ HasDuplicates(ValueOf(value))
    THEN << <<"unique", field>> >>
  ELSE <<>>

\* the errors one property of the schema contributes, in the code's order
PropertyErrors(obj, propSchema) ==
  LET value == obj[propSchema.key]
      typed == value[1] = "val"
      isString == typed /\ propSchema.type = "string"
      isNumber == typed /\ propSchema.type = "number"
  IN  IF ~IsPresent(value) THEN <<>>
      ELSE validateType(propSchema.key, value, propSchema)
           \o (IF isString /\ propSchema.pattern # NoPattern
                   /\ ~PatternTest(propSchema.pattern, ValueOf(value))
                 THEN << <<"pattern", propSchema.key>> >> ELSE <<>>)
           \o (IF isNumber /\ IsPresent(propSchema.minimum)
                   /\ RLt(ValueOf(value), ValueOf(propSchema.minimum))
                 THEN << <<"minimum", propSchema.key>> >> ELSE <<>>)
           \o (IF isNumber /\ IsPresent(propSchema.maximum)
                   /\ RLt(ValueOf(propSchema.maximum), ValueOf(value))
                 THEN << <<"maximum", propSchema.key>> >> ELSE <<>>)
           \o (IF propSchema.enum # {}
                   /\ ~(typed /\ ValueOf(value) \in propSchema.enum)
                 THEN << <<"enum", propSchema.key>> >> ELSE <<>>)

RECURSIVE RequiredErrors(_, _)
RequiredErrors(obj, k) ==
  IF k > Len(SchemaRequired) THEN <<>>
  ELSE (IF ~IsPresent(obj[SchemaRequired[k]])
          THEN << <<"required", SchemaRequired[k]>> >> ELSE <<>>)
       \o RequiredErrors(obj, k + 1)

RECURSIVE AllPropertyErrors(_, _)
AllPropertyErrors(obj, k) ==
  IF k > Len(SchemaProperties) THEN <<>>
  ELSE PropertyErrors(obj, SchemaProperties[k]) \o AllPropertyErrors(obj, k + 1)

RECURSIVE AdditionalErrors(_)
AdditionalErrors(keys) ==
  IF keys = <<>> THEN <<>>
  ELSE << <<"additional", Head(keys)>> >> \o AdditionalErrors(Tail(keys))

RECURSIVE DefaultWarnings(_, _)
DefaultWarnings(obj, k) ==
  IF k > Len(SchemaProperties) THEN <<>>
  ELSE (IF IsUndefined(obj[SchemaProperties[k].key]) /\ SchemaProperties[k].hasDefault
          THEN << <<"default", SchemaProperties[k].key>> >> ELSE <<>>)
       \o DefaultWarnings(obj, k + 1)

\* validate that stops looking for required fields at the first one missing
validate_FirstMissingOnly(data) ==
  IF data[1] # "val"
    THEN [valid |-> FALSE, errors |-> << <<"object", "">> >>, warnings |-> <<>>]
  ELSE
    LET obj == ValueOf(data)
        required == RequiredErrors(obj, 1)
        errors == (IF required = <<>> THEN <<>> ELSE <<Head(required)>>)
                  \o AllPropertyErrors(obj, 1)
                  \o AdditionalErrors(obj.extra)
    IN  [valid |-> Len(errors) = 0, errors |-> errors,
         warnings |-> DefaultWarnings(obj, 1)]

\* SimpleSchemaValidator.validate; data is Val(object), Null, Undefined or
\* WrongType(t) for a primitive
validate(data) ==
  IF data[1] # "val"
    THEN [valid |-> FALSE, errors |-> << <<"object", "">> >>, warnings |-> <<>>]
  ELSE
    LET obj == ValueOf(data)
        errors == RequiredErrors(obj, 1)
                  \o AllPropertyErrors(obj, 1)
                  \o (IF SchemaAdditionalProperties = FALSE
                        THEN AdditionalErrors(obj.extra) ELSE <<>>)
    IN  [valid |-> Len(errors) = 0, errors |-> errors,
         warnings |-> DefaultWarnings(obj, 1)]


(***************************************************************************)
(* Skills offered to the registry                                          *)
(***************************************************************************)
CreatedAt == Val("2026-02-04T00:00:00.000Z")

Meta(name, version, intent, author, tags, cost, threshold, status, extra) ==
  Val([name |-> name, version |-> version, intent |-> intent, author |-> author,
       created_at |-> CreatedAt, tags |-> tags, cost_estimate |-> cost,
       success_threshold |-> threshold, status |-> status, extra |-> extra])

NameCr1 == <<"c", "r", "1">>

NameCr2 == <<"c", "r", "2">>

NameSv == <<"s", "v">>

V100 == <<"1", ".", "0", ".", "0">>

V213a == <<"2", ".", "1", ".", "3", "-", "a">>

Skill(id, metadata) == [id |-> id, metadata |-> metadata]

\* metadata.status absent
SkillA ==
  Skill("A", Meta(Val(NameCr1), Val(V100), Val("code-review"), Val("agent"),
                  Absent, Val(<<1, 1>>), Val(<<4, 5>>), Absent, <<>>))

\* a second skill object with SkillA's name
SkillA2 ==
  Skill("A2", Meta(Val(NameCr1), Val(V213a), Val("summarize-text"), Val("human"),
                   Val(<<"llm">>), Val(<<2, 1>>), Val(<<9, 10>>),
                   Val("production"), <<>>))

SkillB ==
  Skill("B", Meta(Val(NameCr2), Val(V100), Val("code-review"), Val("human"),
                  Val(<<"llm", "fast">>), Absent, Absent,
                  Val("experimental"), <<>>))

\* tags declared and empty
SkillC ==
  Skill("C", Meta(Val(NameSv), Val(V213a), Val("summarize-text"), Val("agent"),
                  Val(<<>>), Val(<<1, 2>>), Val(<<1, 1>>), Val("retired"), <<>>))

\* invalid: SkillB's name, duplicate tags, no author, an additional property
SkillBadB ==
  Skill("F", Meta(Val(NameCr2), Val(V100), Val("code-review"), Absent,
                  Val(<<"llm", "llm">>), Absent, Absent, Absent,
                  <<"extra_property">>))

\* invalid: metadata is null
SkillNullMeta == Skill("N", Null)

\* the two skills of the comparison scenario, with the declared cost and
\* threshold of the compare tests
NameReviewerLlm == <<"r", "e", "v", "i", "e", "w", "e", "r", "-", "l", "l", "m">>

NameReviewerRules ==
  <<"r", "e", "v", "i", "e", "w", "e", "r", "-", "r", "u", "l", "e", "s">>

NameFree == <<"f", "r", "e", "e">>

ReviewerLlm ==
  Skill("L", Meta(Val(NameReviewerLlm), Val(V100), Val("code-review"), Val("agent"),
                  Absent, Val(<<1, 1>>), Val(<<4, 5>>), Absent, <<>>))

ReviewerRules ==
  Skill("R", Meta(Val(NameReviewerRules), Val(V100), Val("code-review"), Val("agent"),
                  Absent, Val(<<1, 2>>), Val(<<9, 10>>), Absent, <<>>))

\* declares a cost of 0 and a threshold of 0
SkillFree ==
  Skill("Z", Meta(Val(NameFree), Val(V100), Val("code-review"), Val("agent"),
                  Absent, Val(<<0, 1>>), Val(<<0, 1>>), Absent, <<>>))

\* the skills offered to register in CompareSpec
CompareSkills == {ReviewerLlm, ReviewerRules, SkillFree}

CompareNames == {NameReviewerLlm, NameReviewerRules, NameFree}

\* the skills offered to register in Spec
SkillInputs == {SkillA, SkillA2, SkillB, SkillBadB, SkillNullMeta}

\* the skills offered to register in QuerySpec
QuerySkills == {SkillA, SkillA2, SkillB, SkillC}

\* the status parameter; Undefined takes the default 'experimental'
StatusArgs == {Undefined, Val("production")}

\* the path parameter: only loadFromDisk, which is not modelled, passes one
PathArgs == {Undefined}

\* the names offered to unregister; NameSv is never registered in Spec
NameInputs == {NameCr1, NameCr2, NameSv}

(***************************************************************************)
(* SkillRegistry                                                           *)
(***************************************************************************)
\* validation is pure: its results for the metadata offered, computed once
ValidationMemo ==
  [data \in {sk.metadata : sk \in SkillInputs \cup QuerySkills \cup CompareSkills}
     |-> validate(data)]

\* validateMetaData(data): a fresh MetaValidator over the schema file
validateMetaData(data) ==
  IF data \in DOMAIN ValidationMemo THEN ValidationMemo[data] ELSE validate(data)

EmptyMap == << >>

MapHas(m, k) == k \in DOMAIN m

MapSet(m, k, v) == [x \in DOMAIN m \cup {k} |-> IF x = k THEN v ELSE m[x]]

MapDelete(m, k) == [x \in DOMAIN m \ {k} |-> m[x]]

Returns(type, v) == <<"return", type, v>>

ReturnsVoid == <<"return", "void">>

Throws(type, message) == <<"throw", type, message>>

IsThrow(result) == result[1] = "throw"

\* the registry object: the three private Maps
Reg == [skills |-> skills, intentIndex |-> intentIndex, statusIndex |-> statusIndex]

\* an entry stored as experimental whatever the status parameter, and not
\* indexed
storeEntry_AlwaysExperimental(reg, skill, status, pathArg) ==
  LET metadata == ValueOf(skill.metadata)
      name == ValueOf(metadata.name)
      entry == [skill |-> skill, metadata |-> metadata,
                path |-> IF IsPresent(pathArg) THEN ValueOf(pathArg) ELSE "",
                status |-> "experimental"]
  IN  [reg |-> [reg EXCEPT !.skills = MapSet(reg.skills, name, entry)],
       result |-> Returns("boolean", TRUE)]

\* SkillRegistry.register, lines 107-130: create the entry, store it in the
\* main table and update the intent and status indices
storeEntry(reg, skill, status, pathArg) ==
  LET metadata == ValueOf(skill.metadata)
      name == ValueOf(metadata.name)
      intent == ValueOf(metadata.intent)
      entry == [skill |-> skill, metadata |-> metadata,
                path |-> IF IsPresent(pathArg) THEN ValueOf(pathArg) ELSE "",
                status |-> status]
      intents == IF MapHas(reg.intentIndex, intent)
                   THEN reg.intentIndex
                   ELSE MapSet(reg.intentIndex, intent, {})
      statuses == IF MapHas(reg.statusIndex, status)
                    THEN reg.statusIndex
                    ELSE MapSet(reg.statusIndex, status, {})
  IN  [reg |-> [skills |-> MapSet(reg.skills, name, entry),
                intentIndex |-> MapSet(intents, intent, intents[intent] \cup {name}),
                statusIndex |-> MapSet(statuses, status, statuses[status] \cup {name})],
       result |-> Returns("boolean", TRUE)]

\* the status parameter with its default
StatusOf(statusArg) ==
  IF IsUndefined(statusArg) THEN "experimental" ELSE ValueOf(statusArg)

\* register without the has(name) check: a second registration overwrites
register_NoDuplicateCheck(reg, skill, statusArg, pathArg) ==
  LET validation == validateMetaData(skill.metadata)
  IN  IF ~validation.valid
        THEN [reg |-> reg,
              result |-> Throws("Error", <<"Invalid skill metadata", validation.errors>>)]
      ELSE storeEntry(reg, skill, StatusOf(statusArg), pathArg)

\* register without the validation: only metadata that cannot be
\* destructured, or has no name or intent, fails
register_NoValidation(reg, skill, statusArg, pathArg) ==
  IF skill.metadata[1] # "val"
    THEN [reg |-> reg, result |-> Throws("TypeError", <<"Cannot destructure", <<>>>>)]
  ELSE IF ~IsPresent(ValueOf(skill.metadata).name)
            \/ ~IsPresent(ValueOf(skill.metadata).intent)
    THEN [reg |-> reg, result |-> Throws("Error", <<"Invalid skill metadata", <<>>>>)]
  ELSE IF MapHas(reg.skills, ValueOf(ValueOf(skill.metadata).name))
    THEN [reg |-> reg,
          result |-> Throws("Error", <<"is already registered",
                                       ValueOf(ValueOf(skill.metadata).name)>>)]
  ELSE storeEntry(reg, skill, StatusOf(statusArg), pathArg)

\* SkillRegistry.register on registry value reg
register(reg, skill, statusArg, pathArg) ==
  LET validation == validateMetaData(skill.metadata)
  IN  IF ~validation.valid
        THEN [reg |-> reg,
              result |-> Throws("Error", <<"Invalid skill metadata", validation.errors>>)]
      ELSE IF MapHas(reg.skills, ValueOf(ValueOf(skill.metadata).name))
        THEN [reg |-> reg,
              result |-> Throws("Error", <<"is already registered",
                                           ValueOf(ValueOf(skill.metadata).name)>>)]
      ELSE storeEntry(reg, skill, StatusOf(statusArg), pathArg)

\* unregister that reports success for a name it did not find
unregister_NotFoundTrue(reg, name) ==
  IF ~MapHas(reg.skills, name)
    THEN [reg |-> reg, result |-> Returns("boolean", TRUE)]
  ELSE [reg |-> [skills |-> MapDelete(reg.skills, name),
                 intentIndex |-> reg.intentIndex, statusIndex |-> reg.statusIndex],
        result |-> Returns("boolean", TRUE)]

\* SkillRegistry.unregister on registry value reg
unregister(reg, name) ==
  IF ~MapHas(reg.skills, name)
    THEN [reg |-> reg, result |-> Returns("boolean", FALSE)]
  ELSE
    LET entry == reg.skills[name]
        intent == ValueOf(entry.metadata.intent)
        \* const { intent, status } = entry.metadata;  status || 'experimental'
        status == IF IsPresent(entry.metadata.status)
                    THEN ValueOf(entry.metadata.status) ELSE "experimental"
        intents == IF MapHas(reg.intentIndex, intent)
                     THEN MapSet(reg.intentIndex, intent,
                                 reg.intentIndex[intent] \ {name})
                     ELSE reg.intentIndex
        statuses == IF MapHas(reg.statusIndex, status)
                      THEN MapSet(reg.statusIndex, status,
                                  reg.statusIndex[status] \ {name})
                      ELSE reg.statusIndex
    IN  [reg |-> [skills |-> MapDelete(reg.skills, name),
                  intentIndex |-> intents, statusIndex |-> statuses],
         result |-> Returns("boolean", TRUE)]

\* the catch block of registerBatch reads skill.metadata.name: a TypeError
\* when metadata is null or undefined
CatchLogThrows(skill) == skill.metadata[1] \in {"null", "undefined", "absent"}

\* SkillRegistry.registerBatch from element k on, count registered so far
RECURSIVE registerBatchFrom(_, _, _, _, _)
registerBatchFrom(reg, batch, statusArg, k, count) ==
  IF k > Len(batch) THEN [reg |-> reg, result |-> Returns("number", count)]
  ELSE
    LET r == register(reg, batch[k], statusArg, Undefined)
    IN  IF ~IsThrow(r.result)
          THEN registerBatchFrom(r.reg, batch, statusArg, k + 1, count + 1)
        ELSE IF CatchLogThrows(batch[k])
          THEN [reg |-> r.reg,
                result |-> Throws("TypeError", <<"Cannot read properties", <<>>>>)]
        ELSE registerBatchFrom(r.reg, batch, statusArg, k + 1, count)

registerBatch(reg, batch, statusArg) == registerBatchFrom(reg, batch, statusArg, 1, 0)

\* SkillRegistry.clear
clear(reg) ==
  [reg |-> [skills |-> EmptyMap, intentIndex |-> EmptyMap, statusIndex |-> EmptyMap],
   result |-> ReturnsVoid]

(***************************************************************************)
(* Queries                                                                 *)
(***************************************************************************)
\* JavaScript truthiness of an optional string held as a TLA+ string
TruthyString(x) == x[1] = "val" /\ ValueOf(x) # ""

\* JavaScript truthiness of an optional string held as a character sequence
TruthyChars(x) == x[1] = "val" /\ Len(ValueOf(x)) > 0

\* String.prototype.includes
Includes(str, sub) ==
  \E i \in 0..(Len(str) - Len(sub)) : SubSeq(str, i + 1, i + Len(sub)) = sub

\* Array.prototype.includes
ArrayIncludes(arr, x) == \E k \in 1..Len(arr) : arr[k] = x

NoOptions ==
  [intent |-> Absent, status |-> Absent, author |-> Absent, tag |-> Absent,
   name |-> Absent, version |-> Absent]

\* matchesQuery filtering on metadata.status instead of the entry's status
matchesQuery_MetadataStatus(entry, options) ==
  LET metadata == entry.metadata
  IN  IF TruthyString(options.intent) /\ metadata.intent # options.intent THEN FALSE
      ELSE IF TruthyString(options.status) /\ metadata.status # options.status THEN FALSE
      ELSE IF TruthyString(options.author) /\ metadata.author # options.author THEN FALSE
      ELSE IF TruthyString(options.tag) /\ IsPresent(metadata.tags)
                /\ ~ArrayIncludes(ValueOf(metadata.tags), ValueOf(options.tag)) THEN FALSE
      ELSE IF TruthyChars(options.name)
                /\ ~Includes(ValueOf(metadata.name), ValueOf(options.name)) THEN FALSE
      ELSE IF TruthyChars(options.version) /\ metadata.version # options.version THEN FALSE
      ELSE TRUE

\* SkillRegistry.matchesQuery
matchesQuery(entry, options) ==
  LET metadata == entry.metadata
      status == entry.status
  IN  IF TruthyString(options.intent) /\ metadata.intent # options.intent THEN FALSE
      ELSE IF TruthyString(options.status) /\ status # ValueOf(options.status) THEN FALSE
      ELSE IF TruthyString(options.author) /\ metadata.author # options.author THEN FALSE
      ELSE IF TruthyString(options.tag) /\ IsPresent(metadata.tags)
                /\ ~ArrayIncludes(ValueOf(metadata.tags), ValueOf(options.tag)) THEN FALSE
      ELSE IF TruthyChars(options.name)
                /\ ~Includes(ValueOf(metadata.name), ValueOf(options.name)) THEN FALSE
      ELSE IF TruthyChars(options.version) /\ metadata.version # options.version THEN FALSE
      ELSE TRUE

\* SkillRegistry.list; options is Undefined or Val(RegistryQueryOptions)
list(reg, options) ==
  IF ~IsPresent(options)
    THEN {reg.skills[n].skill : n \in DOMAIN reg.skills}
  ELSE {reg.skills[n].skill :
          n \in {m \in DOMAIN reg.skills : matchesQuery(reg.skills[m], ValueOf(options))}}

\* SkillRegistry.listMetadata
listMetadata(reg, options) ==
  IF ~IsPresent(options)
    THEN {reg.skills[n].metadata : n \in DOMAIN reg.skills}
  ELSE {reg.skills[n].metadata :
          n \in {m \in DOMAIN reg.skills : matchesQuery(reg.skills[m], ValueOf(options))}}

\* SkillRegistry.getEntry
getEntry(reg, name) == IF MapHas(reg.skills, name) THEN Val(reg.skills[name]) ELSE Undefined

\* SkillRegistry.get
get(reg, name) == IF MapHas(reg.skills, name) THEN Val(reg.skills[name].skill) ELSE Undefined

\* SkillRegistry.getMetadata
getMetadata(reg, name) ==
  IF MapHas(reg.skills, name) THEN Val(reg.skills[name].metadata) ELSE Undefined

\* SkillRegistry.has
has(reg, name) == MapHas(reg.skills, name)

\* SkillRegistry.getStats
getStats(reg) ==
  LET entries == DOMAIN reg.skills
      intents == {ValueOf(reg.skills[n].metadata.intent) : n \in entries}
  IN  [total |-> Cardinality(entries),
       byStatus |-> [st \in StatusEnum |->
                       Cardinality({n \in entries : reg.skills[n].status = st})],
       byIntent |-> [i \in intents |->
                       Cardinality({n \in entries :
                                      ValueOf(reg.skills[n].metadata.intent) = i})]]

(***************************************************************************)
(* SkillRegistry.compare                                                   *)
(***************************************************************************)
\* value || fallback for an optional number of the metadata
OrElse(value, fallback) ==
  IF IsPresent(value) /\ ValueOf(value) # Zero THEN ValueOf(value) ELSE fallback

\* compareValues that normalises the cost difference by A's cost alone
compareValues_NormalisedByA(successRateA, successRateB, latencyA, latencyB, avgCostA, avgCostB) ==
  LET costDiff == RSub(avgCostB, avgCostA)
      latencyDiff == RSub(latencyB, latencyA)
      successRateDiff == RSub(successRateA, successRateB)
      normalizedCost ==
        RMul(RDiv(costDiff, RAdd(avgCostA, Rat(1, 1000))), Rat(2, 1))
      normalizedLatency ==
        RMul(RDiv(latencyDiff, RAdd(RAdd(latencyA, latencyB), One)), Rat(2, 1))
      normalizedSuccessRate == RMul(successRateDiff, Rat(2, 1))
      overallScore ==
        RAdd(RAdd(RMul(normalizedSuccessRate, Rat(4, 10)),
                  RMul(normalizedCost, Rat(3, 10))),
             RMul(normalizedLatency, Rat(3, 10)))
  IN  [aVsB |-> [cost |-> costDiff, latency |-> latencyDiff,
                 success_rate |-> successRateDiff],
       overallScore |-> overallScore,
       recommendation |-> IF RLt(Rat(1, 10), overallScore) THEN "A"
                          ELSE IF RLt(overallScore, Rat(-1, 10)) THEN "B"
                          ELSE "TIE"]

\* compareValues that recommends at the thresholds themselves
compareValues_InclusiveThresholds(successRateA, successRateB, latencyA, latencyB, avgCostA, avgCostB) ==
  LET costDiff == RSub(avgCostB, avgCostA)
      latencyDiff == RSub(latencyB, latencyA)
      successRateDiff == RSub(successRateA, successRateB)
      normalizedCost ==
        RMul(RDiv(costDiff, RAdd(RAdd(avgCostA, avgCostB), Rat(1, 1000))), Rat(2, 1))
      normalizedLatency ==
        RMul(RDiv(latencyDiff, RAdd(RAdd(latencyA, latencyB), One)), Rat(2, 1))
      normalizedSuccessRate == RMul(successRateDiff, Rat(2, 1))
      overallScore ==
        RAdd(RAdd(RMul(normalizedSuccessRate, Rat(4, 10)),
                  RMul(normalizedCost, Rat(3, 10))),
             RMul(normalizedLatency, Rat(3, 10)))
  IN  [aVsB |-> [cost |-> costDiff, latency |-> latencyDiff,
                 success_rate |-> successRateDiff],
       overallScore |-> overallScore,
       recommendation |-> IF RLe(Rat(1, 10), overallScore) THEN "A"
                          ELSE IF RLe(overallScore, Rat(-1, 10)) THEN "B"
                          ELSE "TIE"]

\* compare, lines 312-344: differences, normalisation, overall score and
\* recommendation
compareValues(successRateA, successRateB, latencyA, latencyB, avgCostA, avgCostB) ==
  LET costDiff == RSub(avgCostB, avgCostA)
      latencyDiff == RSub(latencyB, latencyA)
      successRateDiff == RSub(successRateA, successRateB)
      normalizedCost ==
        RMul(RDiv(costDiff, RAdd(RAdd(avgCostA, avgCostB), Rat(1, 1000))), Rat(2, 1))
      normalizedLatency ==
        RMul(RDiv(latencyDiff, RAdd(RAdd(latencyA, latencyB), One)), Rat(2, 1))
      normalizedSuccessRate == RMul(successRateDiff, Rat(2, 1))
      overallScore ==
        RAdd(RAdd(RMul(normalizedSuccessRate, Rat(4, 10)),
                  RMul(normalizedCost, Rat(3, 10))),
             RMul(normalizedLatency, Rat(3, 10)))
  IN  [aVsB |-> [cost |-> costDiff, latency |-> latencyDiff,
                 success_rate |-> successRateDiff],
       overallScore |-> overallScore,
       recommendation |-> IF RLt(Rat(1, 10), overallScore) THEN "A"
                          ELSE IF RLt(overallScore, Rat(-1, 10)) THEN "B"
                          ELSE "TIE"]

\* compare that looks up nameB before nameA
compare_ChecksBFirst(reg, nameA, nameB, metricsA, metricsB) ==
  IF ~MapHas(reg.skills, nameB) THEN Throws("Error", <<"not found", nameB>>)
  ELSE IF ~MapHas(reg.skills, nameA) THEN Throws("Error", <<"not found", nameA>>)
  ELSE Returns("object", compareValues(Zero, Zero, Zero, Zero, Zero, Zero))

\* SkillRegistry.compare; metricsA and metricsB are Undefined or Val(SkillMetrics)
compare(reg, nameA, nameB, metricsA, metricsB) ==
  IF ~MapHas(reg.skills, nameA) THEN Throws("Error", <<"not found", nameA>>)
  ELSE IF ~MapHas(reg.skills, nameB) THEN Throws("Error", <<"not found", nameB>>)
  ELSE
    LET entryA == reg.skills[nameA]
        entryB == reg.skills[nameB]
        costA == OrElse(entryA.metadata.cost_estimate, Zero)
        costB == OrElse(entryB.metadata.cost_estimate, Zero)
        thresholdA == OrElse(entryA.metadata.success_threshold, Rat(8, 10))
        thresholdB == OrElse(entryB.metadata.success_threshold, Rat(8, 10))
        successRateA ==
          IF IsPresent(metricsA) THEN ValueOf(metricsA).success_rate ELSE thresholdA
        successRateB ==
          IF IsPresent(metricsB) THEN ValueOf(metricsB).success_rate ELSE thresholdB
        latencyA == IF IsPresent(metricsA) THEN ValueOf(metricsA).avg_latency ELSE Zero
        latencyB == IF IsPresent(metricsB) THEN ValueOf(metricsB).avg_latency ELSE Zero
        avgCostA == IF IsPresent(metricsA) THEN ValueOf(metricsA).avg_cost ELSE costA
        avgCostB == IF IsPresent(metricsB) THEN ValueOf(metricsB).avg_cost ELSE costB
    IN  Returns("object", compareValues(successRateA, successRateB,
                                        latencyA, latencyB, avgCostA, avgCostB))

(***************************************************************************)
(* Registry actions                                                        *)
(***************************************************************************)
MaxBatch == 2

RECURSIVE SeqsUpTo(_, _)
SeqsUpTo(S, n) ==
  IF n = 0 THEN {<<>>}
  ELSE LET shorter == SeqsUpTo(S, n - 1)
       IN  shorter \cup {Append(q, x) : q \in {r \in shorter : Len(r) = n - 1}, x \in S}

\* the skills batches are made of
BatchSkills == {SkillA, SkillBadB, SkillNullMeta}

BatchInputs == SeqsUpTo(BatchSkills, MaxBatch)

Call(op, args, statusArg, pathArg, name, result) ==
  [op |-> op, args |-> args, status |-> statusArg, path |-> pathArg,
   name |-> name, result |-> result]

Apply(r) ==
  /\ skills' = r.reg.skills
  /\ intentIndex' = r.reg.intentIndex
  /\ statusIndex' = r.reg.statusIndex

Register(skill, statusArg, pathArg) ==
  \E r \in {register(Reg, skill, statusArg, pathArg)} :
      /\ Apply(r)
      /\ lastOp' = Call("register", <<skill>>, statusArg, pathArg, <<>>, r.result)
      /\ UNCHANGED <<scorerVars, collectorVars, policyVars>>

RegisterBatch(batch, statusArg) ==
  \E r \in {registerBatch(Reg, batch, statusArg)} :
      /\ Apply(r)
      /\ lastOp' = Call("registerBatch", batch, statusArg, Undefined, <<>>, r.result)
      /\ UNCHANGED <<scorerVars, collectorVars, policyVars>>

Unregister(name) ==
  \E r \in {unregister(Reg, name)} :
      /\ Apply(r)
      /\ lastOp' = Call("unregister", <<>>, Undefined, Undefined, name, r.result)
      /\ UNCHANGED <<scorerVars, collectorVars, policyVars>>

Clear ==
  \E r \in {clear(Reg)} :
      /\ Apply(r)
      /\ lastOp' = Call("clear", <<>>, Undefined, Undefined, <<>>, r.result)
      /\ UNCHANGED <<scorerVars, collectorVars, policyVars>>

(***************************************************************************)
(* MetricsScorer                                                           *)
(***************************************************************************)
Weights(success, cost, latency, rollback, stability) ==
  [success |-> success, cost |-> cost, latency |-> latency,
   rollback |-> rollback, stability |-> stability]

\* getDefaultConfig
getDefaultConfig ==
  [thresholds |->
     [promote |-> [min_score |-> <<4, 5>>, min_executions |-> 10,
                   min_success_rate |-> <<17, 20>>],
      retire |-> [max_score |-> <<1, 2>>, max_executions |-> 20,
                  max_rollback_rate |-> <<3, 10>>]],
   weights |->
     [balanced |-> Weights(<<2, 5>>, <<1, 5>>, <<3, 20>>, <<3, 20>>, <<1, 10>>),
      aggressive |-> Weights(<<3, 5>>, <<1, 10>>, <<1, 10>>, <<1, 10>>, <<1, 10>>),
      conservative |-> Weights(<<1, 5>>, <<3, 10>>, <<1, 5>>, <<1, 5>>, <<1, 10>>)]]

\* the default parameters of calculateScore
DefaultMaxCost == <<10, 1>>

DefaultMaxLatency == <<10000, 1>>

\* calculateScore with the success term written like the rollback term
calculateScore_InvertedSuccess(metrics, weights, maxCost, maxLatency) ==
  LET score ==
        RAdd(RAdd(RAdd(RAdd(
          RMul(RSub(One, metrics.success_rate), weights.success),
          RMul(RMax(Zero, RSub(One, RDiv(metrics.avg_cost, maxCost))), weights.cost)),
          RMul(RMax(Zero, RSub(One, RDiv(metrics.avg_latency, maxLatency))),
               weights.latency)),
          RMul(RSub(One, metrics.rollback_rate), weights.rollback)),
          RMul(metrics.stability_score, weights.stability))
  IN  RMax(Zero, RMin(One, score))

\* calculateScore with the stability term written like the rollback term
calculateScore_InvertedStability(metrics, weights, maxCost, maxLatency) ==
  LET score ==
        RAdd(RAdd(RAdd(RAdd(
          RMul(metrics.success_rate, weights.success),
          RMul(RMax(Zero, RSub(One, RDiv(metrics.avg_cost, maxCost))), weights.cost)),
          RMul(RMax(Zero, RSub(One, RDiv(metrics.avg_latency, maxLatency))),
               weights.latency)),
          RMul(RSub(One, metrics.rollback_rate), weights.rollback)),
          RMul(RSub(One, metrics.stability_score), weights.stability))
  IN  RMax(Zero, RMin(One, score))

\* calculateScore that returns the weighted sum as it is
calculateScore_NoClamp(metrics, weights, maxCost, maxLatency) ==
  RAdd(RAdd(RAdd(RAdd(
    RMul(metrics.success_rate, weights.success),
    RMul(RMax(Zero, RSub(One, RDiv(metrics.avg_cost, maxCost))), weights.cost)),
    RMul(RMax(Zero, RSub(One, RDiv(metrics.avg_latency, maxLatency))),
         weights.latency)),
    RMul(RSub(One, metrics.rollback_rate), weights.rollback)),
    RMul(metrics.stability_score, weights.stability))

\* MetricsScorer.calculateScore
calculateScore(metrics, weights, maxCost, maxLatency) ==
  LET score ==
        RAdd(RAdd(RAdd(RAdd(
          RMul(metrics.success_rate, weights.success),
          RMul(RMax(Zero, RSub(One, RDiv(metrics.avg_cost, maxCost))), weights.cost)),
          RMul(RMax(Zero, RSub(One, RDiv(metrics.avg_latency, maxLatency))),
               weights.latency)),
          RMul(RSub(One, metrics.rollback_rate), weights.rollback)),
          RMul(metrics.stability_score, weights.stability))
  IN  RMax(Zero, RMin(One, score))

\* canPromote without the execution-count guard
canPromote_NoExecutionGuard(cfg, metrics, weights) ==
  /\ RGe(calculateScore(metrics, weights, DefaultMaxCost, DefaultMaxLatency),
         cfg.thresholds.promote.min_score)
  /\ RGe(metrics.success_rate, cfg.thresholds.promote.min_success_rate)

\* MetricsScorer.canPromote under configuration cfg
canPromote(cfg, metrics, weights) ==
  LET score == calculateScore(metrics, weights, DefaultMaxCost, DefaultMaxLatency)
      thresholds == cfg.thresholds.promote
  IN  /\ RGe(score, thresholds.min_score)
      /\ metrics.execution_count >= thresholds.min_executions
      /\ RGe(metrics.success_rate, thresholds.min_success_rate)

\* shouldRetire on a low score or a high rollback rate
shouldRetire_ScoreOrRollback(cfg, metrics, weights) ==
  /\ metrics.execution_count >= cfg.thresholds.retire.max_executions
  /\ \/ RLe(calculateScore(metrics, weights, DefaultMaxCost, DefaultMaxLatency),
             cfg.thresholds.retire.max_score)
     \/ RGe(metrics.rollback_rate, cfg.thresholds.retire.max_rollback_rate)

\* shouldRetire without the execution-count guard
shouldRetire_NoExecutionGuard(cfg, metrics, weights) ==
  /\ RLe(calculateScore(metrics, weights, DefaultMaxCost, DefaultMaxLatency),
         cfg.thresholds.retire.max_score)
  /\ RGe(metrics.rollback_rate, cfg.thresholds.retire.max_rollback_rate)

\* shouldRetire without the rollback-rate guard
shouldRetire_NoRollbackGuard(cfg, metrics, weights) ==
  /\ RLe(calculateScore(metrics, weights, DefaultMaxCost, DefaultMaxLatency),
         cfg.thresholds.retire.max_score)
  /\ metrics.execution_count >= cfg.thresholds.retire.max_executions

\* MetricsScorer.shouldRetire under configuration cfg
shouldRetire(cfg, metrics, weights) ==
  LET score == calculateScore(metrics, weights, DefaultMaxCost, DefaultMaxLatency)
      thresholds == cfg.thresholds.retire
  IN  /\ RLe(score, thresholds.max_score)
      /\ metrics.execution_count >= thresholds.max_executions
      /\ RGe(metrics.rollback_rate, thresholds.max_rollback_rate)

(***************************************************************************)
(* Scorer inputs and actions                                               *)
(***************************************************************************)
\* a configuration with other thresholds than the default
LooseConfig ==
  [thresholds |->
     [promote |-> [min_score |-> <<1, 2>>, min_executions |-> 6,
                   min_success_rate |-> <<3, 10>>],
      retire |-> [max_score |-> <<9, 10>>, max_executions |-> 9,
                  max_rollback_rate |-> <<3, 20>>]],
   weights |-> getDefaultConfig.weights]

ConfigInputs == {getDefaultConfig, LooseConfig}

WeightInputs ==
  {getDefaultConfig.weights.balanced, getDefaultConfig.weights.aggressive,
   getDefaultConfig.weights.conservative, Weights(One, One, One, One, One)}

SuccessRates == {<<3, 10>>, <<17, 20>>, <<9, 10>>}

AvgCosts == {<<1, 1>>, <<5, 1>>, <<12, 1>>}

AvgLatencies == {<<100, 1>>, <<2000, 1>>}

RollbackRates == {<<1, 20>>, <<3, 20>>, <<3, 10>>, <<2, 5>>}

StabilityScores == {<<3, 10>>, <<19, 20>>}

ExecutionCounts == {5, 9, 10, 19, 20}

LastExecutionAt == "2026-02-04T00:00:00.000Z"

MetricsInputs ==
  {[success_rate |-> sr, avg_cost |-> ac, avg_latency |-> al, rollback_rate |-> rr,
    stability_score |-> ss, execution_count |-> ec,
    last_execution_at |-> LastExecutionAt] :
     sr \in SuccessRates, ac \in AvgCosts, al \in AvgLatencies,
     rr \in RollbackRates, ss \in StabilityScores, ec \in ExecutionCounts}

Eval(op, metrics, weights, result) ==
  [op |-> op, metrics |-> metrics, weights |-> weights, result |-> result]

\* the metrics and weights the next Scorer call is made with
IdleEval == Eval("input", CHOOSE m \in MetricsInputs : TRUE,
                 getDefaultConfig.weights.balanced, ReturnsVoid)

CalculateScore ==
  /\ lastEval' = [lastEval EXCEPT
                    !.op = "calculateScore",
                    !.result = Returns("number",
                                 calculateScore(lastEval.metrics, lastEval.weights,
                                                DefaultMaxCost, DefaultMaxLatency))]
  /\ UNCHANGED <<config, registryVars, collectorVars, policyVars>>

CanPromote ==
  /\ lastEval' = [lastEval EXCEPT
                    !.op = "canPromote",
                    !.result = Returns("boolean",
                                 canPromote(config, lastEval.metrics, lastEval.weights))]
  /\ UNCHANGED <<config, registryVars, collectorVars, policyVars>>

ShouldRetire ==
  /\ lastEval' = [lastEval EXCEPT
                    !.op = "shouldRetire",
                    !.result = Returns("boolean",
                                 shouldRetire(config, lastEval.metrics, lastEval.weights))]
  /\ UNCHANGED <<config, registryVars, collectorVars, policyVars>>

\* MetricsScorer.updateConfig
UpdateConfig(cfg) ==
  /\ config' = cfg
  /\ lastEval' = [lastEval EXCEPT !.op = "updateConfig", !.result = ReturnsVoid]
  /\ UNCHANGED <<registryVars, collectorVars, policyVars>>

(***************************************************************************)
(* MetricsCollector                                                        *)
(***************************************************************************)
\* an ExecutionRecord
Record(success, cost, latency, rolled_back, timestamp) ==
  [success |-> success, cost |-> cost, latency |-> latency,
   rolled_back |-> rolled_back, timestamp |-> timestamp]

\* new Date().toISOString() at the time of a call
Now == "2026-02-05T00:00:00.000Z"

\* Math.sqrt on [0, 1], to two decimals: exact when the root is a multiple
\* of 1/100, and the next lower multiple otherwise
Sqrt(x) ==
  Rat(CHOOSE k \in 0..100 :
        /\ k * k * x[2] <= x[1] * 10000
        /\ (k + 1) * (k + 1) * x[2] > x[1] * 10000,
      100)

\* reduce((sum, r) => sum + r, 0) over a sequence of numbers
RECURSIVE SumOf(_)
SumOf(numbers) ==
  IF numbers = <<>> THEN Zero
  ELSE RAdd(SumOf(SubSeq(numbers, 1, Len(numbers) - 1)), numbers[Len(numbers)])

\* records.filter(r => r.success).length
SuccessCount(history) == Cardinality({i \in 1..Len(history) : history[i].success})

\* records.filter(r => r.rolled_back).length
RollbackCount(history) == Cardinality({i \in 1..Len(history) : history[i].rolled_back})

\* recordExecution that starts the history again with the new record
recordExecution_Replaces(recs, skillName, record) ==
  MapSet(recs, skillName, <<record>>)

\* MetricsCollector.recordExecution
recordExecution(recs, skillName, record) ==
  LET present == IF MapHas(recs, skillName) THEN recs ELSE MapSet(recs, skillName, <<>>)
  IN  MapSet(present, skillName, Append(present[skillName], record))

\* MetricsCollector.getRecords
getRecords(recs, skillName) ==
  IF MapHas(recs, skillName) THEN recs[skillName] ELSE <<>>

\* the stability score from the sample deviation (n - 1 in the divisor)
calculateStabilityScore_SampleDeviation(history) ==
  IF Len(history) = 0 THEN Zero
  ELSE IF Len(history) <= 10 THEN One
  ELSE LET successRates ==
             [k \in 1..(Len(history) - 9) |->
                Rat(SuccessCount(SubSeq(history, k, k + 9)), 10)]
           mean == RDiv(SumOf(successRates), Rat(Len(successRates), 1))
           variance ==
             RDiv(SumOf([k \in 1..Len(successRates) |->
                           RMul(RSub(successRates[k], mean),
                                RSub(successRates[k], mean))]),
                  Rat(Len(successRates) - 1, 1))
       IN  RMax(Zero, RMin(One, RSub(One, Sqrt(variance))))

\* the stability score over windows of at most 5 records
calculateStabilityScore_WindowOfFive(history) ==
  IF Len(history) = 0 THEN Zero
  ELSE IF Len(history) = 1 THEN One
  ELSE LET windowSize == IF Len(history) < 5 THEN Len(history) ELSE 5
           successRates ==
             [k \in 1..(Len(history) - windowSize + 1) |->
                Rat(SuccessCount(SubSeq(history, k, k + windowSize - 1)), windowSize)]
           mean == RDiv(SumOf(successRates), Rat(Len(successRates), 1))
           variance ==
             RDiv(SumOf([k \in 1..Len(successRates) |->
                           RMul(RSub(successRates[k], mean),
                                RSub(successRates[k], mean))]),
                  Rat(Len(successRates), 1))
       IN  RMax(Zero, RMin(One, RSub(One, Sqrt(variance))))

\* MetricsCollector.calculateStabilityScore
calculateStabilityScore(history) ==
  IF Len(history) = 0 THEN Zero
  ELSE IF Len(history) = 1 THEN One
  ELSE LET windowSize == IF Len(history) < 10 THEN Len(history) ELSE 10
           successRates ==
             [k \in 1..(Len(history) - windowSize + 1) |->
                Rat(SuccessCount(SubSeq(history, k, k + windowSize - 1)), windowSize)]
           mean == RDiv(SumOf(successRates), Rat(Len(successRates), 1))
           variance ==
             RDiv(SumOf([k \in 1..Len(successRates) |->
                           RMul(RSub(successRates[k], mean),
                                RSub(successRates[k], mean))]),
                  Rat(Len(successRates), 1))
           stdDev == Sqrt(variance)
       IN  RMax(Zero, RMin(One, RSub(One, stdDev)))

\* calculateMetrics, lines 78-88: the metrics of a skill with no records
emptyMetrics ==
  [success_rate |-> Zero, avg_cost |-> Zero, avg_latency |-> Zero,
   rollback_rate |-> Zero, stability_score |-> Zero, execution_count |-> 0,
   last_execution_at |-> Now]

\* aggregateMetrics with the success rate taken over the executions that
\* were not rolled back
aggregateMetrics_SuccessNotRolledBack(history) ==
  [success_rate |->
     Rat(Cardinality({i \in 1..Len(history) :
                        history[i].success /\ ~history[i].rolled_back}),
         Len(history)),
   avg_cost |-> RDiv(SumOf([k \in 1..Len(history) |-> history[k].cost]),
                     Rat(Len(history), 1)),
   avg_latency |-> RDiv(SumOf([k \in 1..Len(history) |-> history[k].latency]),
                        Rat(Len(history), 1)),
   rollback_rate |-> Rat(RollbackCount(history), Len(history)),
   stability_score |-> calculateStabilityScore(history),
   execution_count |-> Len(history),
   last_execution_at |-> history[Len(history)].timestamp]

\* calculateMetrics, lines 90-124: the metrics of a non-empty history
aggregateMetrics(history) ==
  [success_rate |-> Rat(SuccessCount(history), Len(history)),
   avg_cost |-> RDiv(SumOf([k \in 1..Len(history) |-> history[k].cost]),
                     Rat(Len(history), 1)),
   avg_latency |-> RDiv(SumOf([k \in 1..Len(history) |-> history[k].latency]),
                        Rat(Len(history), 1)),
   rollback_rate |-> Rat(RollbackCount(history), Len(history)),
   stability_score |-> calculateStabilityScore(history),
   execution_count |-> Len(history),
   last_execution_at |-> history[Len(history)].timestamp]

\* metricsOf that takes a skill without records for a stable one
metricsOf_EmptyStable(history) ==
  IF Len(history) = 0 THEN [emptyMetrics EXCEPT !.stability_score = One]
  ELSE aggregateMetrics(history)

\* the metrics calculateMetrics derives from a history
metricsOf(history) ==
  IF Len(history) = 0 THEN emptyMetrics ELSE aggregateMetrics(history)

\* MetricsCollector.calculateMetrics
calculateMetrics(recs, skillName) == metricsOf(getRecords(recs, skillName))

\* MetricsCollector.clearRecords
clearRecords(recs, skillName) == MapDelete(recs, skillName)

\* MetricsCollector.clearAllRecords
clearAllRecords(recs) == EmptyMap

(***************************************************************************)
(* Collector inputs and actions                                            *)
(***************************************************************************)
\* the longest history recorded for one skill
MaxRecords == 3

CollectorNames == {"skill-a", "skill-b"}

\* a success, a failure that was rolled back, and a record whose cost and
\* latency are out of range
RecordInputs ==
  {Record(TRUE, Rat(1, 2), Rat(100, 1), FALSE, "2026-02-04T00:00:01.000Z"),
   Record(FALSE, Rat(3, 2), Rat(300, 1), TRUE, "2026-02-04T00:00:02.000Z"),
   Record(TRUE, Rat(-5, 1), Rat(-1, 1), TRUE, "2026-02-04T00:00:03.000Z")}

CollectorCall(op, skillName, record, result) ==
  [op |-> op, skillName |-> skillName, record |-> record, result |-> result]

RecordExecution(skillName, record) ==
  /\ Len(getRecords(records, skillName)) < MaxRecords
  /\ records' = recordExecution(records, skillName, record)
  /\ lastCalc' = CollectorCall("recordExecution", skillName, record, ReturnsVoid)
  /\ UNCHANGED <<registryVars, scorerVars, policyVars>>

GetRecords(skillName) ==
  /\ lastCalc' = CollectorCall("getRecords", skillName, <<>>,
                               Returns("array", getRecords(records, skillName)))
  /\ UNCHANGED <<records, registryVars, scorerVars, policyVars>>

CalculateMetrics(skillName) ==
  /\ lastCalc' = CollectorCall("calculateMetrics", skillName, <<>>,
                               Returns("object", calculateMetrics(records, skillName)))
  /\ UNCHANGED <<records, registryVars, scorerVars, policyVars>>

ClearRecords(skillName) ==
  /\ records' = clearRecords(records, skillName)
  /\ lastCalc' = CollectorCall("clearRecords", skillName, <<>>, ReturnsVoid)
  /\ UNCHANGED <<registryVars, scorerVars, policyVars>>

ClearAllRecords ==
  /\ records' = clearAllRecords(records)
  /\ lastCalc' = CollectorCall("clearAllRecords", "", <<>>, ReturnsVoid)
  /\ UNCHANGED <<registryVars, scorerVars, policyVars>>

(***************************************************************************)
(* Histories recorded run after run, as the collector tests record them:   *)
(* every run of a history has the same cost, latency and rollback flag,    *)
(* and its success flag follows a pattern of PatternLen flags              *)
(***************************************************************************)
\* the runs of the stability tests
StabilityRuns == 20

\* the length of successPattern
PatternLen == 10

HistoryName == "test-skill"

\* the runs a history is made of: the test's cost and latency, and a cost
\* out of range
RunInputs ==
  {Record(success, cost, Rat(100, 1), FALSE, "2026-02-04T00:00:01.000Z") :
     success \in BOOLEAN, cost \in {Rat(1, 1), Rat(-100, 1)}}

\* the same run as another, whatever its outcome
SameRun(r, q) == [r EXCEPT !.success = TRUE] = [q EXCEPT !.success = TRUE]

RecordRun(record) ==
  LET history == getRecords(records, HistoryName)
  IN  /\ Len(history) < StabilityRuns
      /\ history # <<>> => SameRun(record, history[1])
      /\ Len(history) >= PatternLen
           => record.success = history[Len(history) + 1 - PatternLen].success
      /\ records' = recordExecution(records, HistoryName, record)
      /\ lastCalc' = CollectorCall("recordExecution", HistoryName, record, ReturnsVoid)
      /\ UNCHANGED <<registryVars, scorerVars, policyVars>>

(***************************************************************************)
(* Histories of up to MaxRuns runs with any pattern of outcomes            *)
(***************************************************************************)
MaxRuns == 12

RecordOutcome(success) ==
  /\ Len(getRecords(records, HistoryName)) < MaxRuns
  /\ \E record \in {Record(success, Rat(1, 1), Rat(100, 1), FALSE, Now)} :
       /\ records' = recordExecution(records, HistoryName, record)
       /\ lastCalc' = CollectorCall("recordExecution", HistoryName, record, ReturnsVoid)
  /\ UNCHANGED <<registryVars, scorerVars, policyVars>>

(***************************************************************************)
(* calculateScore over metrics in and out of range, weight profiles that   *)
(* do or do not sum to 1, and several ceilings                             *)
(***************************************************************************)
ScoreSuccessRates == {Rat(-1, 2), Zero, Rat(3, 10), Rat(9, 10), One}

ScoreCosts == {Rat(-5, 1), Rat(1, 1), Rat(10, 1), Rat(12, 1)}

ScoreLatencies == {Rat(-1000, 1), Rat(100, 1), Rat(10000, 1)}

ScoreRollbackRates == {Zero, Rat(2, 3), One}

ScoreStabilities == {Zero, Rat(19, 20), Rat(3, 2)}

ScoreMetrics ==
  {[success_rate |-> sr, avg_cost |-> ac, avg_latency |-> al, rollback_rate |-> rr,
    stability_score |-> ss, execution_count |-> 3,
    last_execution_at |-> LastExecutionAt] :
     sr \in ScoreSuccessRates, ac \in ScoreCosts, al \in ScoreLatencies,
     rr \in ScoreRollbackRates, ss \in ScoreStabilities}

ScoreWeights == WeightInputs \cup {Weights(Zero, Zero, Zero, Zero, Zero)}

\* maxCost and maxLatency: the defaults, the ceilings of the high-cost test,
\* and small ones
CeilingInputs ==
  {<<DefaultMaxCost, DefaultMaxLatency>>, <<Rat(100, 1), Rat(10000, 1)>>,
   <<Rat(1, 2), Rat(50, 1)>>}

\* calculateScore called with ceilings
CalculateScoreWith(maxCost, maxLatency) ==
  /\ lastEval' = [op |-> "calculateScore", metrics |-> lastEval.metrics,
                  weights |-> lastEval.weights, maxCost |-> maxCost,
                  maxLatency |-> maxLatency,
                  result |-> Returns("number",
                               calculateScore(lastEval.metrics, lastEval.weights,
                                              maxCost, maxLatency))]
  /\ UNCHANGED <<config, registryVars, collectorVars, policyVars>>

(***************************************************************************)
(* PolicyChecker                                                           *)
(***************************************************************************)
\* toLowerCase, and the 'i' flag of RegExp, over the letters of the commands
ToLower(c) ==
  CASE c = "R" -> "r" [] c = "M" -> "m" [] c = "F" -> "f" [] OTHER -> c

LowerCase(str) == [k \in 1..Len(str) |-> ToLower(str[k])]

\* new RegExp(pattern, 'i').test(command) for a pattern of literal
\* characters, which is also what the catch branch computes
PatternTestI(pattern, command) == Includes(LowerCase(command), LowerCase(pattern))

DangerousCommand(pattern, severity, action, description) ==
  [pattern |-> pattern, severity |-> severity, action |-> action,
   description |-> description]

\* checkDangerousCommand from entry k on: the first entry that matches
RECURSIVE checkDangerousFrom(_, _, _)
checkDangerousFrom(commands, command, k) ==
  IF k > Len(commands) THEN Null
  ELSE IF PatternTestI(commands[k].pattern, command) THEN Val(commands[k])
  ELSE checkDangerousFrom(commands, command, k + 1)

\* PolicyChecker.checkDangerousCommand
checkDangerousCommand(cfg, command) ==
  checkDangerousFrom(cfg.dangerous_commands, command, 1)

OneHour == 60 * 60 * 1000

OneDay == 24 * 60 * 60 * 1000

\* the constructor's executionStats at time t
NewStats(t) ==
  [hourly |-> [count |-> 0, timestamp |-> t],
   daily |-> [count |-> 0, timestamp |-> t],
   cost |-> [hourly |-> 0, daily |-> 0]]

\* PolicyChecker.updateTimeWindows
updateTimeWindows(stats, t) ==
  LET hour == IF t - stats.hourly.timestamp > OneHour
                THEN [stats EXCEPT !.hourly = [count |-> 0, timestamp |-> t],
                                   !.cost.hourly = 0]
              ELSE stats
  IN  IF t - hour.daily.timestamp > OneDay
        THEN [hour EXCEPT !.daily = [count |-> 0, timestamp |-> t], !.cost.daily = 0]
      ELSE hour

\* JavaScript truthiness of an optional number
TruthyNumber(x) == x[1] = "val" /\ ValueOf(x) # 0

\* checkLimits without the limit on the cost of one task
checkLimits_NoTaskLimit(cfg, stats, request, t) ==
  LET updated == updateTimeWindows(stats, t)
      limits == cfg.limits
  IN  [stats |-> updated,
       allowed |-> /\ updated.daily.count < limits.max_executions_per_day
                   /\ updated.hourly.count < limits.max_executions_per_hour
                   /\ updated.cost.daily < limits.max_cost_per_day
                   /\ updated.cost.hourly < limits.max_cost_per_hour,
       reason |-> "limit"]

\* PolicyChecker.checkLimits: the statistics after updateTimeWindows, and
\* the verdict
checkLimits(cfg, stats, request, t) ==
  LET updated == updateTimeWindows(stats, t)
      limits == cfg.limits
      reason ==
        IF updated.daily.count >= limits.max_executions_per_day
          THEN "max_executions_per_day"
        ELSE IF updated.hourly.count >= limits.max_executions_per_hour
          THEN "max_executions_per_hour"
        ELSE IF updated.cost.daily >= limits.max_cost_per_day THEN "max_cost_per_day"
        ELSE IF updated.cost.hourly >= limits.max_cost_per_hour THEN "max_cost_per_hour"
        ELSE IF /\ TruthyNumber(request.estimated_cost)
                /\ ValueOf(request.estimated_cost) > limits.max_cost_per_task
          THEN "max_cost_per_task"
        ELSE ""
  IN  [stats |-> updated, allowed |-> reason = "", reason |-> reason]

\* recordExecution that counts the execution and leaves the cost out
recordExecutionStats_NoCost(stats, request) ==
  [stats EXCEPT !.hourly.count = @ + 1, !.daily.count = @ + 1]

\* PolicyChecker.recordExecution
recordExecutionStats(stats, request) ==
  LET counted == [stats EXCEPT !.hourly.count = @ + 1, !.daily.count = @ + 1]
  IN  IF TruthyNumber(request.estimated_cost)
        THEN [counted EXCEPT !.cost.hourly = @ + ValueOf(request.estimated_cost),
                             !.cost.daily = @ + ValueOf(request.estimated_cost)]
      ELSE counted

\* request.command || request.input || ''
CommandOf(request) ==
  IF TruthyChars(request.command) THEN ValueOf(request.command)
  ELSE IF TruthyChars(request.input) THEN ValueOf(request.input)
  ELSE <<>>

\* PolicyChecker.createApprovalRequest; id is what generateRequestId returned
createApprovalRequest(cfg, request, dangerous, id, t) ==
  [id |-> id,
   skill_name |-> IF TruthyString(request.skill_name)
                    THEN ValueOf(request.skill_name) ELSE "unknown",
   task_id |-> IF TruthyString(request.task_id)
                 THEN ValueOf(request.task_id) ELSE "unknown",
   command |-> CommandOf(request),
   reason |-> dangerous.description,
   timestamp |-> t,
   expires_at |-> t + cfg.limits.approval_timeout]

CheckResult(allowed, reason, action_taken, dangerous_command, requires_approval, warnings) ==
  [allowed |-> allowed, reason |-> reason, action_taken |-> action_taken,
   dangerous_command |-> dangerous_command, requires_approval |-> requires_approval,
   warnings |-> warnings]

\* PolicyChecker.check at time t; id is what generateRequestId would return.
\* notify writes to the console and changes no state.
check(cfg, pending, stats, request, t, id) ==
  LET command == CommandOf(request)
      dangerousCommand == checkDangerousCommand(cfg, command)
      found == IsPresent(dangerousCommand)
      dangerous == ValueOf(dangerousCommand)
      warnings == IF found /\ dangerous.action = "warn"
                    THEN << <<"warn", dangerous.pattern>> >> ELSE <<>>
      limitCheck == checkLimits(cfg, stats, request, t)
  IN  IF found /\ dangerous.action = "block"
        THEN [pendingApprovals |-> pending, executionStats |-> stats, issued |-> FALSE,
              result |-> CheckResult(FALSE, "blocked", "block", dangerousCommand,
                                     FALSE, warnings)]
      ELSE IF found /\ dangerous.action = "require_approval"
        THEN [pendingApprovals |->
                MapSet(pending, id, createApprovalRequest(cfg, request, dangerous, id, t)),
              executionStats |-> stats, issued |-> TRUE,
              result |-> CheckResult(FALSE, "approval", "require_approval",
                                     dangerousCommand, TRUE,
                                     << <<"dangerous", dangerous.pattern>> >>)]
      ELSE IF ~limitCheck.allowed
        THEN [pendingApprovals |-> pending, executionStats |-> limitCheck.stats,
              issued |-> FALSE,
              result |-> CheckResult(FALSE, limitCheck.reason, "block", Absent,
                                     FALSE, warnings)]
      ELSE [pendingApprovals |-> pending,
            executionStats |-> recordExecutionStats(limitCheck.stats, request),
            issued |-> FALSE,
            result |-> CheckResult(TRUE, "", "allow", Absent, FALSE, warnings)]

\* approve that keeps a rejected request pending
approve_KeepsRejected(pending, requestId, approved, t) ==
  IF ~MapHas(pending, requestId) THEN [pendingApprovals |-> pending, result |-> FALSE]
  ELSE IF approved /\ ~(t > pending[requestId].expires_at)
    THEN [pendingApprovals |-> MapDelete(pending, requestId), result |-> TRUE]
  ELSE [pendingApprovals |-> pending, result |-> FALSE]

\* PolicyChecker.approve at time t
approve(pending, requestId, approved, t) ==
  IF ~MapHas(pending, requestId) THEN [pendingApprovals |-> pending, result |-> FALSE]
  ELSE IF t > pending[requestId].expires_at
    THEN [pendingApprovals |-> MapDelete(pending, requestId), result |-> FALSE]
  ELSE IF approved
    THEN [pendingApprovals |-> MapDelete(pending, requestId), result |-> TRUE]
  ELSE [pendingApprovals |-> MapDelete(pending, requestId), result |-> FALSE]

\* PolicyChecker.cleanupExpiredApprovals at time t
cleanupExpiredApprovals(pending, t) ==
  [id \in {i \in DOMAIN pending : ~(t > pending[i].expires_at)} |-> pending[id]]

(***************************************************************************)
(* PolicyChecker inputs and actions                                        *)
(***************************************************************************)
PatRm == <<"r", "m">>

PatRmRf == <<"r", "m", " ", "-", "r", "f">>

PatPush == <<"p", "u", "s", "h">>

BlockRmRf == DangerousCommand(PatRmRf, "critical", "block", "recursive delete")

ApprovePush == DangerousCommand(PatPush, "high", "require_approval", "force push")

WarnRm == DangerousCommand(PatRm, "low", "warn", "delete")

ApproveRm == DangerousCommand(PatRm, "medium", "require_approval", "delete")

\* limits low enough to be met
PolicyLimits ==
  [max_cost_per_day |-> 3, max_cost_per_hour |-> 2, max_cost_per_task |-> 2,
   max_executions_per_hour |-> 3, max_executions_per_day |-> 4,
   approval_timeout |-> 300000]

PolicyConfig(commands) == [dangerous_commands |-> commands, limits |-> PolicyLimits]

\* the blacklist in the order of the test configuration: blocks first
TestPolicyConfig == PolicyConfig(<<BlockRmRf, ApprovePush, WarnRm>>)

\* blacklists in other orders of patterns and actions
DangerConfigs ==
  {PolicyConfig(commands) :
     commands \in {<<BlockRmRf, ApprovePush, WarnRm>>, <<BlockRmRf, WarnRm, ApprovePush>>,
                   <<WarnRm, BlockRmRf, ApprovePush>>, <<ApprovePush, WarnRm, BlockRmRf>>,
                   <<ApproveRm, BlockRmRf>>, <<BlockRmRf, ApproveRm>>, <<BlockRmRf>>,
                   <<>>}}

Request(command, input, estimated_cost) ==
  [skill_name |-> Val("test-skill"), task_id |-> Absent, command |-> command,
   input |-> input, estimated_cost |-> estimated_cost]

PolicyCommands ==
  {<<"l", "s">>, <<"R", "M", " ", "-", "R", "F", " ", "/">>,
   <<"g", "i", "t", " ", "p", "u", "s", "h">>, <<"r", "m", " ", "x">>}

\* requests with a command and no cost, requests with a cost, and requests
\* with an input and no command or an empty one
PolicyRequests ==
  {Request(Val(c), Absent, Absent) : c \in PolicyCommands}
    \cup {Request(Val(<<"l", "s">>), Absent, Val(cost)) : cost \in 1..3}
    \cup {Request(Val(<<"r", "m", " ", "x">>), Absent, Val(1))}
    \cup {Request(command, Val(PatRmRf), Absent) : command \in {Absent, Val(<<>>)}}

\* the times of the calls: the construction, and later than the approval
\* timeout, than one hour and than one day after it
Instants == {0, 300001, 3900002, 90300003}

MaxRequests == 2

\* what a call that is no check is recorded with
NoRequest == Request(Absent, Absent, Absent)

NoResult == CheckResult(FALSE, "", "", Absent, FALSE, <<>>)

\* a call: check(request) and its result, approve(requestId, approved) and
\* the boolean it returned
PolicyCall(op, request, requestId, approved, returned, result) ==
  [op |-> op, request |-> request, requestId |-> requestId, approved |-> approved,
   returned |-> returned, result |-> result]

\* generateRequestId returns an id never returned before: nextId stands for
\* approval_<time>_<random>
Check(request) ==
  \E r \in {check(policyConfig, pendingApprovals, executionStats, request, now, nextId)} :
      /\ r.issued => nextId <= MaxRequests
      /\ pendingApprovals' = r.pendingApprovals
      /\ executionStats' = r.executionStats
      /\ nextId' = IF r.issued THEN nextId + 1 ELSE nextId
      /\ lastPolicy' = PolicyCall("check", request, 0, FALSE, r.result.allowed, r.result)
      /\ UNCHANGED <<policyConfig, now, registryVars, scorerVars, collectorVars>>

Approve(requestId, approved) ==
  \E r \in {approve(pendingApprovals, requestId, approved, now)} :
      /\ pendingApprovals' = r.pendingApprovals
      /\ lastPolicy' = PolicyCall("approve", NoRequest, requestId, approved, r.result,
                                 NoResult)
      /\ UNCHANGED <<policyConfig, executionStats, now, nextId,
                     registryVars, scorerVars, collectorVars>>

CleanupExpiredApprovals ==
  /\ pendingApprovals' = cleanupExpiredApprovals(pendingApprovals, now)
  /\ lastPolicy' = PolicyCall("cleanupExpiredApprovals", NoRequest, 0, FALSE, FALSE,
                             NoResult)
  /\ UNCHANGED <<policyConfig, executionStats, now, nextId,
                 registryVars, scorerVars, collectorVars>>

\* time passes between two calls: Date.now() returns t from now on
Tick(t) ==
  /\ t > now
  /\ now' = t
  /\ lastPolicy' = PolicyCall("Date.now", NoRequest, 0, FALSE, FALSE, NoResult)
  /\ UNCHANGED <<policyConfig, pendingApprovals, executionStats, nextId,
                 registryVars, scorerVars, collectorVars>>

\* new PolicyChecker(configPath), for a configuration file
PolicyInitWith(cfg) ==
  /\ policyConfig = cfg
  /\ pendingApprovals = EmptyMap
  /\ executionStats = NewStats(0)
  /\ now = 0
  /\ nextId = 1
  /\ lastPolicy = PolicyCall("new", NoRequest, 0, FALSE, FALSE, NoResult)

PolicyInit == PolicyInitWith(TestPolicyConfig)

(***************************************************************************)
(* Compare inputs and action                                               *)
(***************************************************************************)
Metrics(success_rate, avg_cost, avg_latency, rollback_rate, stability_score, execution_count) ==
  [success_rate |-> success_rate, avg_cost |-> avg_cost, avg_latency |-> avg_latency,
   rollback_rate |-> rollback_rate, stability_score |-> stability_score,
   execution_count |-> execution_count, last_execution_at |-> LastExecutionAt]

\* metricsA and metricsB of the compare test
TestMetricsA == Metrics(Rat(19, 20), Rat(4, 5), Rat(100, 1), Rat(1, 20), Rat(9, 10), 100)

TestMetricsB == Metrics(Rat(17, 20), Rat(2, 5), Rat(200, 1), Rat(1, 10), Rat(4, 5), 100)

\* two metrics that differ in success_rate alone, by 1/8: the overall score
\* of their comparison is 1/10
EdgeMetricsA == Metrics(Rat(5, 8), Rat(2, 5), Rat(100, 1), Zero, One, 8)

EdgeMetricsB == Metrics(Rat(1, 2), Rat(2, 5), Rat(100, 1), Zero, One, 8)

\* the histories of a number of runs, the same but for their outcomes, with
\* a given number of successes in any order
Arrangements(runs, successes) ==
  {h \in [1..runs -> {Record(TRUE, Rat(1, 1), Rat(100, 1), FALSE,
                             "2026-02-04T00:00:01.000Z"),
                      Record(FALSE, Rat(1, 1), Rat(100, 1), FALSE,
                             "2026-02-04T00:00:01.000Z")}] :
     Cardinality({i \in 1..runs : h[i].success}) = successes}

\* what the Collector computes from 10 executions with 9 successes
LlmMetrics == {metricsOf(h) : h \in Arrangements(10, 9)}

\* what the Collector computes from 10 executions with 6 successes
RulesMetrics == {metricsOf(h) : h \in Arrangements(10, 6)}

\* the optional metrics parameters: omitted, the test's, the Collector's
MetricsArgs ==
  {Undefined}
    \cup {Val(m) : m \in {TestMetricsA, TestMetricsB} \cup LlmMetrics \cup RulesMetrics}

EdgeArgs == {Val(EdgeMetricsA), Val(EdgeMetricsB)}

\* the pairs <<metricsA, metricsB>> offered to compare
MetricsPairs == (MetricsArgs \X MetricsArgs) \cup (EdgeArgs \X EdgeArgs)

Compare(nameA, nameB, metricsA, metricsB) ==
  /\ lastOp' = Call("compare", <<nameA, nameB, metricsA, metricsB>>,
                    Undefined, Undefined, <<>>,
                    compare(Reg, nameA, nameB, metricsA, metricsB))
  /\ UNCHANGED <<skills, intentIndex, statusIndex, scorerVars, collectorVars, policyVars>>

(***************************************************************************)
(* Query actions: the read operations of the registry as recorded calls    *)
(***************************************************************************)
Query(op, args, result) ==
  /\ lastOp' = Call(op, args, Undefined, Undefined, <<>>, result)
  /\ UNCHANGED <<skills, intentIndex, statusIndex, scorerVars, collectorVars, policyVars>>

List(options) == Query("list", <<options>>, Returns("array", list(Reg, options)))

ListMetadata(options) ==
  Query("listMetadata", <<options>>, Returns("array", listMetadata(Reg, options)))

Get(name) == Query("get", <<name>>, Returns("object", get(Reg, name)))

GetMetadata(name) == Query("getMetadata", <<name>>, Returns("object", getMetadata(Reg, name)))

GetEntry(name) == Query("getEntry", <<name>>, Returns("object", getEntry(Reg, name)))

Has(name) == Query("has", <<name>>, Returns("boolean", has(Reg, name)))

GetStats == Query("getStats", <<>>, Returns("object", getStats(Reg)))

RegistryInit ==
  /\ skills = EmptyMap
  /\ intentIndex = EmptyMap
  /\ statusIndex = EmptyMap
  /\ lastOp = Call("new", <<>>, Undefined, Undefined, <<>>, ReturnsVoid)

CollectorInit ==
  /\ records = EmptyMap
  /\ lastCalc = CollectorCall("new", "", <<>>, ReturnsVoid)

Init ==
  /\ RegistryInit
  /\ CollectorInit
  /\ PolicyInit
  /\ config = getDefaultConfig
  /\ lastEval = IdleEval

Next ==
  \/ \E skill \in SkillInputs, statusArg \in StatusArgs, pathArg \in PathArgs :
       Register(skill, statusArg, pathArg)
  \/ \E batch \in BatchInputs, statusArg \in StatusArgs : RegisterBatch(batch, statusArg)
  \/ \E name \in NameInputs : Unregister(name)
  \/ Clear

Spec == Init /\ [][Next]_vars

(***************************************************************************)
(* QuerySpec: the registry states of a richer set of skills, reached by    *)
(* the same operations with no call recorded (registerBatch is a sequence  *)
(* of register calls and reaches no further state)                         *)
(***************************************************************************)
QRegister(skill, statusArg, pathArg) ==
  \E r \in {register(Reg, skill, statusArg, pathArg)} :
      /\ Apply(r)
      /\ UNCHANGED <<lastOp, scorerVars, collectorVars, policyVars>>

QUnregister(name) ==
  \E r \in {unregister(Reg, name)} :
      /\ Apply(r)
      /\ UNCHANGED <<lastOp, scorerVars, collectorVars, policyVars>>

QClear ==
  \E r \in {clear(Reg)} :
      /\ Apply(r)
      /\ UNCHANGED <<lastOp, scorerVars, collectorVars, policyVars>>

QueryNext ==
  \/ \E skill \in QuerySkills, statusArg \in StatusArgs, pathArg \in PathArgs :
       QRegister(skill, statusArg, pathArg)
  \/ \E name \in NameInputs : QUnregister(name)
  \/ QClear

QuerySpec == Init /\ [][QueryNext]_vars

(***************************************************************************)
(* ScorerSpec: a Scorer constructed with one of the configurations, and    *)
(* the metrics and weights its calls are made with                         *)
(***************************************************************************)
ScorerInit ==
  /\ RegistryInit
  /\ CollectorInit
  /\ PolicyInit
  /\ config \in ConfigInputs
  /\ lastEval \in {Eval("input", m, w, ReturnsVoid) :
                     m \in MetricsInputs, w \in WeightInputs}

ScorerNext ==
  \/ CalculateScore
  \/ CanPromote
  \/ ShouldRetire
  \/ \E cfg \in ConfigInputs : UpdateConfig(cfg)

ScorerSpec == ScorerInit /\ [][ScorerNext]_vars

(***************************************************************************)
(* CollectorSpec: a Collector and the calls made on it                     *)
(***************************************************************************)
CollectorNext ==
  \/ \E skillName \in CollectorNames, record \in RecordInputs :
       RecordExecution(skillName, record)
  \/ \E skillName \in CollectorNames : GetRecords(skillName)
  \/ \E skillName \in CollectorNames : CalculateMetrics(skillName)
  \/ \E skillName \in CollectorNames : ClearRecords(skillName)
  \/ ClearAllRecords

CollectorSpec == Init /\ [][CollectorNext]_vars

(***************************************************************************)
(* HistorySpec: one skill's history, recorded run after run, and the       *)
(* metrics calculated from it                                              *)
(***************************************************************************)
HistoryNext ==
  \/ \E record \in RunInputs : RecordRun(record)
  \/ CalculateMetrics(HistoryName)

HistorySpec == Init /\ [][HistoryNext]_vars

(***************************************************************************)
(* StabilitySpec: one skill's history with any pattern of successes and    *)
(* failures, and the metrics calculated from it                            *)
(***************************************************************************)
StabilityNext ==
  \/ \E success \in BOOLEAN : RecordOutcome(success)
  \/ CalculateMetrics(HistoryName)

StabilitySpec == Init /\ [][StabilityNext]_vars

(***************************************************************************)
(* ScoreSpec: calculateScore applied to the metrics, weights and ceilings  *)
(* it can be given                                                         *)
(***************************************************************************)
ScoreInit ==
  /\ RegistryInit
  /\ CollectorInit
  /\ PolicyInit
  /\ config = getDefaultConfig
  /\ lastEval \in {Eval("input", m, w, ReturnsVoid) :
                     m \in ScoreMetrics, w \in ScoreWeights}

ScoreNext ==
  \E ceilings \in CeilingInputs : CalculateScoreWith(ceilings[1], ceilings[2])

ScoreSpec == ScoreInit /\ [][ScoreNext]_vars

(***************************************************************************)
(* CompareSpec: skills with declared costs and thresholds are registered   *)
(* and compared, with and without metrics                                  *)
(***************************************************************************)
CompareNext ==
  \/ \E skill \in CompareSkills : Register(skill, Undefined, Undefined)
  \/ \E nameA \in CompareNames, nameB \in CompareNames, pair \in MetricsPairs :
       Compare(nameA, nameB, pair[1], pair[2])

CompareSpec == Init /\ [][CompareNext]_vars

(***************************************************************************)
(* LifecycleSpec: one Registry, one Collector and one Scorer, and every    *)
(* operation of the three on two skills                                    *)
(***************************************************************************)
LifecycleSkills == {ReviewerLlm, ReviewerRules}

LifecycleNames == {NameReviewerLlm, NameReviewerRules}

\* the Scorer is asked about metrics that qualify for promotion
LifecycleInit ==
  /\ RegistryInit
  /\ CollectorInit
  /\ PolicyInit
  /\ config = getDefaultConfig
  /\ lastEval = Eval("input", TestMetricsA, getDefaultConfig.weights.balanced, ReturnsVoid)

LifecycleNext ==
  \/ \E skill \in LifecycleSkills, statusArg \in StatusArgs :
       Register(skill, statusArg, Undefined)
  \/ \E batch \in SeqsUpTo(LifecycleSkills, MaxBatch), statusArg \in StatusArgs :
       RegisterBatch(batch, statusArg)
  \/ \E name \in LifecycleNames : Unregister(name)
  \/ Clear
  \/ \E options \in {Undefined, Val([NoOptions EXCEPT !.status = Val("production")])} :
       List(options) \/ ListMetadata(options)
  \/ \E name \in LifecycleNames :
       Get(name) \/ GetMetadata(name) \/ GetEntry(name) \/ Has(name)
  \/ GetStats
  \/ \E nameA \in LifecycleNames, nameB \in LifecycleNames :
       Compare(nameA, nameB, Undefined, Undefined)
  \/ \E record \in {Record(TRUE, Rat(1, 1), Rat(100, 1), FALSE, Now)} :
       RecordExecution(NameReviewerLlm, record)
  \/ CalculateMetrics(NameReviewerLlm)
  \/ CalculateScore
  \/ CanPromote
  \/ ShouldRetire

LifecycleSpec == LifecycleInit /\ [][LifecycleNext]_vars

(***************************************************************************)
(* ValidateSpec: validate applied to objects whose required fields are     *)
(* missing, undefined, null or set                                         *)
(***************************************************************************)
ValidateInputs ==
  {Val([name |-> n, version |-> v, intent |-> i, author |-> a, created_at |-> c,
        tags |-> Absent, cost_estimate |-> Absent, success_threshold |-> Absent,
        status |-> Absent, extra |-> x]) :
     n \in {Absent, Undefined, Null, Val(NameCr1), Val(<<"C", "r">>), WrongType("number")},
     v \in {Absent, Val(V100)},
     i \in {Undefined, Val("code-review")},
     a \in {Null, Val("agent")},
     c \in {Absent, Null, CreatedAt},
     x \in {<<>>, <<"extra">>}}

Validate(data) ==
  /\ lastOp' = Call("validate", <<data>>, Undefined, Undefined, <<>>,
                    Returns("object", validate(data)))
  /\ UNCHANGED <<skills, intentIndex, statusIndex, scorerVars, collectorVars, policyVars>>

ValidateNext == \E data \in ValidateInputs : Validate(data)

ValidateSpec == Init /\ [][ValidateNext]_vars

(***************************************************************************)
(* PolicySpec: a PolicyChecker with the test's blacklist and low limits,   *)
(* the requests checked, the approvals given and the time that passes      *)
(***************************************************************************)
PolicyNext ==
  \/ \E request \in PolicyRequests : Check(request)
  \/ \E requestId \in 0..MaxRequests, approved \in BOOLEAN : Approve(requestId, approved)
  \/ CleanupExpiredApprovals
  \/ \E t \in Instants : Tick(t)

PolicySpec == Init /\ [][PolicyNext]_vars

(***************************************************************************)
(* DangerSpec: PolicyCheckers with blacklists in several orders, and the   *)
(* requests checked                                                        *)
(***************************************************************************)
DangerInit ==
  /\ RegistryInit
  /\ CollectorInit
  /\ config = getDefaultConfig
  /\ lastEval = IdleEval
  /\ \E cfg \in DangerConfigs : PolicyInitWith(cfg)

DangerNext == \E request \in PolicyRequests : Check(request)

DangerSpec == DangerInit /\ [][DangerNext]_vars

(***************************************************************************)
(* Properties of the registry operations                                   *)
(***************************************************************************)
\* the members of an index set, empty when the index has no such key
IntentMembers(intent) ==
  IF MapHas(intentIndex, intent) THEN intentIndex[intent] ELSE {}

StatusMembers(status) ==
  IF MapHas(statusIndex, status) THEN statusIndex[status] ELSE {}

\* every name the catalog or an index mentions
IndexedNames ==
  DOMAIN skills
    \cup UNION {intentIndex[i] : i \in DOMAIN intentIndex}
    \cup UNION {statusIndex[st] : st \in DOMAIN statusIndex}

\* the name a skill's metadata declares, when it declares one
DeclaredName(skill) ==
  IF skill.metadata[1] = "val" /\ ValueOf(skill.metadata).name[1] = "val"
    THEN ValueOf(skill.metadata).name
    ELSE Absent

\* C1: after any sequence of register, registerBatch, unregister and clear
\* calls, a name is a key of the catalog exactly when it is a member of the
\* intent-index set of its metadata's intent and of the status-index set of
\* its entry's status, and it is a member of no other index set.
C1_IndexesMatchCatalog ==
  \A n \in IndexedNames \cup NameInputs :
    /\ \A i \in DOMAIN intentIndex \cup {"code-review", "summarize-text"} :
         n \in IntentMembers(i)
           <=> (MapHas(skills, n) /\ skills[n].metadata.intent = Val(i))
    /\ \A st \in DOMAIN statusIndex \cup StatusEnum :
         n \in StatusMembers(st)
           <=> (MapHas(skills, n) /\ skills[n].status = st)

\* C5: a register call for a name that is already registered raises, leaves
\* the total unchanged, and get(name) still returns the skill registered
\* first, under the status it was registered with.
C5_DuplicateRegisterRaises ==
  [][(/\ lastOp'.op = "register"
      /\ IsPresent(DeclaredName(lastOp'.args[1]))
      /\ MapHas(skills, ValueOf(DeclaredName(lastOp'.args[1]))))
       => LET name == ValueOf(DeclaredName(lastOp'.args[1]))
          IN  /\ IsThrow(lastOp'.result)
              /\ getStats(Reg').total = getStats(Reg).total
              /\ get(Reg', name) = get(Reg, name)
              /\ getEntry(Reg', name) = getEntry(Reg, name)]_vars

\* a second registration under a taken name, of another skill and with
\* another status, was rejected and the first entry is still there
C5_Witness ==
  /\ lastOp.op = "register"
  /\ IsThrow(lastOp.result)
  /\ lastOp.result[3][1] = "is already registered"
  /\ MapHas(skills, lastOp.result[3][2])
  /\ skills[lastOp.result[3][2]].skill # lastOp.args[1]
  /\ skills[lastOp.result[3][2]].status # StatusOf(lastOp.status)

\* C6: a register call whose metadata fails validation raises an error that
\* carries the validation errors and changes nothing; every entry that
\* enters the catalog has metadata that passes validation, stored under
\* the name that metadata declares.
C6_InvalidMetadataRejected ==
  [][/\ (lastOp'.op = "register"
           /\ ~validateMetaData(lastOp'.args[1].metadata).valid)
          => /\ lastOp'.result
                  = Throws("Error",
                           <<"Invalid skill metadata",
                             validateMetaData(lastOp'.args[1].metadata).errors>>)
             /\ validateMetaData(lastOp'.args[1].metadata).errors # <<>>
             /\ UNCHANGED <<skills, intentIndex, statusIndex>>
     /\ \A n \in DOMAIN skills' :
          (~MapHas(skills, n) \/ skills'[n] # skills[n])
            => /\ validateMetaData(Val(skills'[n].metadata)).valid
               /\ skills'[n].metadata.name = Val(n)]_vars

\* a skill with several validation errors was rejected by a catalog that
\* holds other skills
C6_Witness ==
  /\ lastOp.op = "register"
  /\ IsThrow(lastOp.result)
  /\ lastOp.result[3][1] = "Invalid skill metadata"
  /\ Len(lastOp.result[3][2]) > 1
  /\ DOMAIN skills # {}

\* C7: unregister(name) returns true exactly when name was registered; then
\* has(name) is false, get(name) is undefined, the total is one less and
\* the other entries are untouched; when it returns false the catalog is
\* unchanged; a valid skill whose name is not registered, as after an
\* unregister, can be registered.
C7_UnregisterContract ==
  [][/\ lastOp'.op = "unregister"
          => /\ lastOp'.result = Returns("boolean", has(Reg, lastOp'.name))
             /\ has(Reg, lastOp'.name)
                  => /\ ~has(Reg', lastOp'.name)
                     /\ get(Reg', lastOp'.name) = Undefined
                     /\ getStats(Reg').total = getStats(Reg).total - 1
                     /\ \A m \in DOMAIN skills \ {lastOp'.name} :
                          getEntry(Reg', m) = getEntry(Reg, m)
             /\ ~has(Reg, lastOp'.name) => skills' = skills
     /\ (/\ lastOp'.op = "register"
         /\ validateMetaData(lastOp'.args[1].metadata).valid
         /\ ~has(Reg, ValueOf(DeclaredName(lastOp'.args[1]))))
          => /\ lastOp'.result = Returns("boolean", TRUE)
             /\ get(Reg', ValueOf(DeclaredName(lastOp'.args[1])))
                  = Val(lastOp'.args[1])]_vars

\* an unregister call returned true, its name is gone, another skill stays
C7_Witness ==
  /\ lastOp.op = "unregister"
  /\ lastOp.result = Returns("boolean", TRUE)
  /\ ~has(Reg, lastOp.name)
  /\ DOMAIN skills # {}

\* what a batch registers when every element is attempted in turn
RECURSIVE EachAttempted(_, _, _, _, _)
EachAttempted(reg, batch, statusArg, k, count) ==
  IF k > Len(batch) THEN [reg |-> reg, count |-> count]
  ELSE LET r == register(reg, batch[k], statusArg, Undefined)
       IN  IF IsThrow(r.result)
             THEN EachAttempted(reg, batch, statusArg, k + 1, count)
             ELSE EachAttempted(r.reg, batch, statusArg, k + 1, count + 1)

\* C8: registerBatch attempts every element of its list, registers each one
\* that would register on its own at that point whatever failed before it,
\* never raises, and returns the number of skills it added.
C8_BatchAttemptsEach ==
  [][lastOp'.op = "registerBatch"
       => LET e == EachAttempted(Reg, lastOp'.args, lastOp'.status, 1, 0)
          IN  /\ ~IsThrow(lastOp'.result)
              /\ lastOp'.result = Returns("number", e.count)
              /\ Reg' = e.reg
              /\ Cardinality(DOMAIN skills')
                   = Cardinality(DOMAIN skills) + e.count]_vars

(***************************************************************************)
(* Properties of list                                                      *)
(***************************************************************************)
IntentOptions == {Absent, Val("code-review"), Val("summarize-text"), Val("")}

StatusOptions == {Absent, Val("experimental"), Val("production"), Val("retired")}

AuthorOptions == {Absent, Val("agent"), Val("")}

VersionOptions == {Absent, Val(V100), Val(V213a)}

NameOptions == {Absent, Val(<<"c", "r">>), Val(<<"r", "2">>), Val(NameSv), Val(<<>>)}

TagOptions == {"llm", "fast", "slow"}

\* the option objects without a tag
QueryOptions ==
  {[intent |-> i, status |-> st, author |-> a, tag |-> Absent, name |-> n, version |-> v] :
     i \in IntentOptions, st \in StatusOptions, a \in AuthorOptions,
     n \in NameOptions, v \in VersionOptions}

\* the skills of the entries that meet a condition
SkillsWhere(Cond(_)) ==
  {skills[n].skill : n \in {m \in DOMAIN skills : Cond(skills[m])}}

\* an entry meets every option that is present
SatisfiesSupplied(entry, options) ==
  /\ IsPresent(options.intent) => entry.metadata.intent = options.intent
  /\ IsPresent(options.status) => entry.status = ValueOf(options.status)
  /\ IsPresent(options.author) => entry.metadata.author = options.author
  /\ IsPresent(options.version) => entry.metadata.version = options.version
  /\ IsPresent(options.name)
       => Includes(ValueOf(entry.metadata.name), ValueOf(options.name))

\* a string option that is present and not the empty string
NonEmptyString(x) == IsPresent(x) /\ ValueOf(x) # ""

\* the same for an option modelled as a sequence of characters
NonEmptyChars(x) == IsPresent(x) /\ Len(ValueOf(x)) > 0

\* an entry meets every option that is present and not the empty string
SatisfiesNonEmpty(entry, options) ==
  /\ NonEmptyString(options.intent) => entry.metadata.intent = options.intent
  /\ NonEmptyString(options.status) => entry.status = ValueOf(options.status)
  /\ NonEmptyString(options.author) => entry.metadata.author = options.author
  /\ NonEmptyChars(options.version) => entry.metadata.version = options.version
  /\ NonEmptyChars(options.name)
       => Includes(ValueOf(entry.metadata.name), ValueOf(options.name))

\* C9 as stated: list(options) returns exactly the registered skills that
\* satisfy every supplied option (intent, entry status, author, version,
\* name substring), and list() returns every registered skill.
C9_ListMeetsEverySupplied ==
  /\ list(Reg, Undefined) = {skills[n].skill : n \in DOMAIN skills}
  /\ \A o \in QueryOptions :
       list(Reg, Val(o)) = LET Meets(entry) == SatisfiesSupplied(entry, o)
                           IN  SkillsWhere(Meets)

\* C9: list(options) returns exactly the registered skills that satisfy
\* every option supplied with a non-empty value (intent, entry status,
\* author, version, name substring); an option given as the empty string
\* filters nothing; list() returns every registered skill.
C9_ListMeetsEveryNonEmpty ==
  /\ list(Reg, Undefined) = {skills[n].skill : n \in DOMAIN skills}
  /\ \A o \in QueryOptions :
       list(Reg, Val(o)) = LET Meets(entry) == SatisfiesNonEmpty(entry, o)
                           IN  SkillsWhere(Meets)

\* three skills of two intents and two authors are registered, one of them
\* under a status its metadata does not declare; the filters pick one of them
C9_Witness ==
  /\ Cardinality(DOMAIN skills) = 3
  /\ list(Reg, Val([NoOptions EXCEPT !.intent = Val("code-review"),
                                     !.author = Val("agent")])) = {SkillA}
  /\ list(Reg, Val([NoOptions EXCEPT !.status = Val("production")])) = {SkillA}
  /\ list(Reg, Val([NoOptions EXCEPT !.intent = Val("")]))
       = {skills[n].skill : n \in DOMAIN skills}

\* C10: list({tag: T}) returns exactly the registered skills whose declared
\* tags contain T, also when skills that declare no tags are registered.
C10_ListByTag ==
  \A t \in TagOptions :
    list(Reg, Val([NoOptions EXCEPT !.tag = Val(t)]))
      = LET Tagged(entry) == /\ IsPresent(entry.metadata.tags)
                             /\ ArrayIncludes(ValueOf(entry.metadata.tags), t)
        IN  SkillsWhere(Tagged)

(***************************************************************************)
(* Properties of the scorer                                                *)
(***************************************************************************)
\* the score of the metrics the last call was made with
LastScore ==
  calculateScore(lastEval.metrics, lastEval.weights, DefaultMaxCost, DefaultMaxLatency)

\* C2: canPromote is true exactly when score >= min_score, execution_count
\* >= min_executions and success_rate >= min_success_rate; it is false
\* whenever execution_count < min_executions.
C2_CanPromoteIff ==
  lastEval.op = "canPromote"
    => /\ (lastEval.result = Returns("boolean", TRUE))
            <=> /\ RGe(LastScore, config.thresholds.promote.min_score)
                /\ lastEval.metrics.execution_count
                     >= config.thresholds.promote.min_executions
                /\ RGe(lastEval.metrics.success_rate,
                       config.thresholds.promote.min_success_rate)
       /\ lastEval.result \in {Returns("boolean", TRUE), Returns("boolean", FALSE)}
       /\ lastEval.metrics.execution_count < config.thresholds.promote.min_executions
            => lastEval.result = Returns("boolean", FALSE)

\* score and success rate clear their thresholds, the execution count does
\* not, and canPromote returned false
C2_Witness ==
  /\ lastEval.op = "canPromote"
  /\ RGe(LastScore, config.thresholds.promote.min_score)
  /\ RGe(lastEval.metrics.success_rate, config.thresholds.promote.min_success_rate)
  /\ lastEval.metrics.execution_count < config.thresholds.promote.min_executions
  /\ lastEval.result = Returns("boolean", FALSE)

\* C3: shouldRetire is true exactly when score <= max_score, execution_count
\* >= max_executions and rollback_rate >= max_rollback_rate; it is false
\* whenever execution_count < max_executions.
C3_ShouldRetireIff ==
  lastEval.op = "shouldRetire"
    => /\ (lastEval.result = Returns("boolean", TRUE))
            <=> /\ RLe(LastScore, config.thresholds.retire.max_score)
                /\ lastEval.metrics.execution_count
                     >= config.thresholds.retire.max_executions
                /\ RGe(lastEval.metrics.rollback_rate,
                       config.thresholds.retire.max_rollback_rate)
       /\ lastEval.result \in {Returns("boolean", TRUE), Returns("boolean", FALSE)}
       /\ lastEval.metrics.execution_count < config.thresholds.retire.max_executions
            => lastEval.result = Returns("boolean", FALSE)

\* score and rollback rate meet their thresholds, the execution count does
\* not, and shouldRetire returned false
C3_Witness ==
  /\ lastEval.op = "shouldRetire"
  /\ RLe(LastScore, config.thresholds.retire.max_score)
  /\ RGe(lastEval.metrics.rollback_rate, config.thresholds.retire.max_rollback_rate)
  /\ lastEval.metrics.execution_count < config.thresholds.retire.max_executions
  /\ lastEval.result = Returns("boolean", FALSE)

\* a shouldRetire call under the default thresholds for a skill with a rate
\* of 3 rollbacks in 20 executions and a score below max_score
RetireScenario ==
  /\ lastEval.op = "shouldRetire"
  /\ config = getDefaultConfig
  /\ lastEval.metrics.rollback_rate = Rat(3, 20)
  /\ RLt(LastScore, config.thresholds.retire.max_score)

\* C4 as stated: under the default thresholds a skill with 20 executions,
\* 3 rollbacks and a score below max_score gets shouldRetire = true, and
\* the same skill with only 5 executions gets false.
C4_RetiresAtThreeInTwenty ==
  RetireScenario
    => /\ lastEval.metrics.execution_count = 20
            => lastEval.result = Returns("boolean", TRUE)
       /\ lastEval.metrics.execution_count = 5
            => lastEval.result = Returns("boolean", FALSE)

\* C4: under the default thresholds a skill with 20 executions, 3 rollbacks
\* (rate 0.15, below max_rollback_rate 0.3) and a score below max_score
\* gets shouldRetire = false, as does the same skill with only 5
\* executions; with 20 executions, a score below max_score and a rollback
\* rate of at least 0.3 it gets true.
C4_RetiresAtMaxRollbackRate ==
  /\ RetireScenario
       => /\ lastEval.metrics.execution_count = 20
               => lastEval.result = Returns("boolean", FALSE)
          /\ lastEval.metrics.execution_count = 5
               => lastEval.result = Returns("boolean", FALSE)
  /\ (/\ lastEval.op = "shouldRetire"
      /\ config = getDefaultConfig
      /\ RGe(lastEval.metrics.rollback_rate, Rat(3, 10))
      /\ RLt(LastScore, config.thresholds.retire.max_score)
      /\ lastEval.metrics.execution_count = 20)
       => lastEval.result = Returns("boolean", TRUE)

\* the skill with 20 executions and 3 rollbacks was not retired
C4_Witness ==
  /\ RetireScenario
  /\ lastEval.metrics.execution_count = 20
  /\ lastEval.result = Returns("boolean", FALSE)

(***************************************************************************)
(* Properties of the collector                                             *)
(***************************************************************************)
\* C18: recordExecution(s, r) appends r at the end of s's history, keeps
\* every earlier record, rejects no record and leaves the other histories
\* unchanged; a clear empties the histories it names and no other; the
\* queries change nothing, and getRecords(s) returns s's history: so
\* getRecords(s) is the sequence of the records recorded for s since the
\* last clear that affected s, in call order.
C18_HistoryIsAppendOnly ==
  [][/\ lastCalc'.op = "recordExecution"
          => /\ getRecords(records', lastCalc'.skillName)
                  = Append(getRecords(records, lastCalc'.skillName), lastCalc'.record)
             /\ lastCalc'.result = ReturnsVoid
             /\ \A t \in CollectorNames \ {lastCalc'.skillName} :
                  getRecords(records', t) = getRecords(records, t)
     /\ lastCalc'.op = "clearRecords"
          => /\ getRecords(records', lastCalc'.skillName) = <<>>
             /\ \A t \in CollectorNames \ {lastCalc'.skillName} :
                  getRecords(records', t) = getRecords(records, t)
     /\ lastCalc'.op = "clearAllRecords"
          => \A t \in CollectorNames : getRecords(records', t) = <<>>
     /\ lastCalc'.op \in {"getRecords", "calculateMetrics"}
          => \A t \in CollectorNames : getRecords(records', t) = getRecords(records, t)
     /\ lastCalc'.op = "getRecords"
          => lastCalc'.result
               = Returns("array", getRecords(records, lastCalc'.skillName))]_vars

\* an out-of-range record was appended to a history that holds another
\* record, while the other skill has a history of its own
C18_Witness ==
  /\ lastCalc.op = "recordExecution"
  /\ RLt(lastCalc.record.cost, Zero)
  /\ Len(getRecords(records, lastCalc.skillName)) >= 2
  /\ getRecords(records, lastCalc.skillName)[1] # lastCalc.record
  /\ \E t \in CollectorNames \ {lastCalc.skillName} : getRecords(records, t) # <<>>

\* C19: for a skill name with no stored records, calculateMetrics returns
\* success_rate, avg_cost, avg_latency, rollback_rate and stability_score
\* 0 and execution_count 0, and getRecords returns the empty sequence.
C19_NoRecordsAllZero ==
  /\ (lastCalc.op = "calculateMetrics"
        /\ (~MapHas(records, lastCalc.skillName) \/ records[lastCalc.skillName] = <<>>))
       => /\ lastCalc.result[1] = "return"
          /\ lastCalc.result[3].success_rate = Zero
          /\ lastCalc.result[3].avg_cost = Zero
          /\ lastCalc.result[3].avg_latency = Zero
          /\ lastCalc.result[3].rollback_rate = Zero
          /\ lastCalc.result[3].stability_score = Zero
          /\ lastCalc.result[3].execution_count = 0
  /\ (lastCalc.op = "getRecords"
        /\ (~MapHas(records, lastCalc.skillName) \/ records[lastCalc.skillName] = <<>>))
       => lastCalc.result = Returns("array", <<>>)

\* calculateMetrics was called for a skill without records while the
\* other skill has records
C19_Witness ==
  /\ lastCalc.op = "calculateMetrics"
  /\ ~MapHas(records, lastCalc.skillName)
  /\ lastCalc.result[3].execution_count = 0
  /\ \E t \in CollectorNames : getRecords(records, t) # <<>>

\* C20: for a non-empty history calculateMetrics returns execution_count
\* = number of records, success_rate = successes / execution_count and
\* rollback_rate = rollbacks / execution_count, both within [0, 1].
C20_RatesAreCounts ==
  (lastCalc.op = "calculateMetrics" /\ getRecords(records, lastCalc.skillName) # <<>>)
    => LET history == getRecords(records, lastCalc.skillName)
           metrics == lastCalc.result[3]
           successes == Cardinality({i \in DOMAIN history : history[i].success = TRUE})
           rollbacks == Cardinality({i \in DOMAIN history : history[i].rolled_back = TRUE})
       IN  /\ metrics.execution_count = Len(history)
           /\ metrics.success_rate[1] * metrics.execution_count
                = successes * metrics.success_rate[2]
           /\ metrics.rollback_rate[1] * metrics.execution_count
                = rollbacks * metrics.rollback_rate[2]
           /\ RLe(Zero, metrics.success_rate) /\ RLe(metrics.success_rate, One)
           /\ RLe(Zero, metrics.rollback_rate) /\ RLe(metrics.rollback_rate, One)

\* a history of three records, two successes and two rollbacks
C20_Witness ==
  /\ lastCalc.op = "calculateMetrics"
  /\ lastCalc.result[3].execution_count = 3
  /\ lastCalc.result[3].success_rate = Rat(2, 3)
  /\ lastCalc.result[3].rollback_rate = Rat(2, 3)

(***************************************************************************)
(* Properties of the metrics of a history                                  *)
(***************************************************************************)
\* calculateScore under the balanced weights and the default ceilings
BalancedScore(metrics) ==
  calculateScore(metrics, getDefaultConfig.weights.balanced,
                 DefaultMaxCost, DefaultMaxLatency)

\* the history the last collector call was about
LastHistory == getRecords(records, lastCalc.skillName)

\* the histories of as many runs as LastHistory, the same runs but for
\* their outcomes, with a given number of successes in any order
Rearranged(successes) ==
  {h \in [1..Len(LastHistory) -> {[LastHistory[1] EXCEPT !.success = TRUE],
                                  [LastHistory[1] EXCEPT !.success = FALSE]}] :
     Cardinality({i \in 1..Len(LastHistory) : h[i].success}) = successes}

\* calculateMetrics was called for a history of 10 runs with 9 successes
NineOfTen ==
  /\ lastCalc.op = "calculateMetrics"
  /\ Len(LastHistory) = 10
  /\ SuccessCount(LastHistory) = 9

Alternates(history) ==
  \A i \in 1..(Len(history) - 1) : history[i].success # history[i + 1].success

\* C17: a history of 20 executions that strictly alternates success and
\* failure yields a stability_score below 0.9, and a history of 20
\* successes yields a stability_score above 0.9.
C17_OscillationPenalised ==
  (lastCalc.op = "calculateMetrics" /\ Len(LastHistory) = StabilityRuns)
    => /\ Alternates(LastHistory)
            => RLt(lastCalc.result[3].stability_score, Rat(9, 10))
       /\ SuccessCount(LastHistory) = StabilityRuns
            => RLt(Rat(9, 10), lastCalc.result[3].stability_score)

(***************************************************************************)
(* Properties of calculateScore                                            *)
(***************************************************************************)
\* the score of the last call with its metrics replaced
ScoreOf(metrics) ==
  calculateScore(metrics, lastEval.weights, lastEval.maxCost, lastEval.maxLatency)

\* C15: calculateScore returns a value in [0, 1] for every metrics value,
\* every non-negative weight profile and positive ceilings, also when the
\* weights sum to more than 1, when the metrics are out of range, and when
\* avg_cost or avg_latency is at or above its ceiling, whose sub-score is
\* then 0: the score is that of a skill exactly at the ceiling.
C15_ScoreInUnitInterval ==
  lastEval.op = "calculateScore"
    => /\ lastEval.result[2] = "number"
       /\ RLe(Zero, lastEval.result[3])
       /\ RLe(lastEval.result[3], One)
       /\ RGe(lastEval.metrics.avg_cost, lastEval.maxCost)
            => lastEval.result[3]
                 = ScoreOf([lastEval.metrics EXCEPT !.avg_cost = lastEval.maxCost])
       /\ RGe(lastEval.metrics.avg_latency, lastEval.maxLatency)
            => lastEval.result[3]
                 = ScoreOf([lastEval.metrics EXCEPT !.avg_latency = lastEval.maxLatency])

\* weights that sum to 5 and a negative cost: the score returned is 1
C15_Witness ==
  /\ lastEval.op = "calculateScore"
  /\ lastEval.weights = Weights(One, One, One, One, One)
  /\ RLt(lastEval.metrics.avg_cost, Zero)
  /\ RGe(lastEval.metrics.avg_latency, lastEval.maxLatency)
  /\ lastEval.result[3] = One

\* C16: for fixed weights, ceilings and other metrics, raising
\* success_rate or stability_score never lowers the score calculateScore
\* returns.
C16_ScoreMonotonic ==
  lastEval.op = "calculateScore"
    => /\ \A sr \in ScoreSuccessRates :
            RGe(sr, lastEval.metrics.success_rate)
              => RGe(ScoreOf([lastEval.metrics EXCEPT !.success_rate = sr]),
                     lastEval.result[3])
       /\ \A ss \in ScoreStabilities :
            RGe(ss, lastEval.metrics.stability_score)
              => RGe(ScoreOf([lastEval.metrics EXCEPT !.stability_score = ss]),
                     lastEval.result[3])

\* a score strictly inside [0, 1] that a higher success rate and a higher
\* stability each raise
C16_Witness ==
  /\ lastEval.op = "calculateScore"
  /\ RLt(Zero, lastEval.result[3])
  /\ RLt(lastEval.result[3], One)
  /\ RLt(lastEval.result[3], ScoreOf([lastEval.metrics EXCEPT !.success_rate = One]))
  /\ RLt(lastEval.result[3],
         ScoreOf([lastEval.metrics EXCEPT !.stability_score = Rat(3, 2)]))

(***************************************************************************)
(* Properties of compare                                                   *)
(***************************************************************************)
\* the last call was a compare call that returned a comparison
Compared == lastOp.op = "compare" /\ ~IsThrow(lastOp.result)

\* the same call with A and B exchanged
Exchanged ==
  compare(Reg, lastOp.args[2], lastOp.args[1], lastOp.args[4], lastOp.args[3])

RNeg(x) == RSub(Zero, x)

\* C11: for two registered skills, with metrics for both (cost and latency
\* not negative) or for neither, compare(A, B, mA, mB) and
\* compare(B, A, mB, mA) return cost, latency and success_rate deltas and
\* overall scores that are negations of each other, and recommendations
\* that agree: 'A' in one exactly when 'B' in the other, 'TIE' exactly
\* when 'TIE'.
C11_CompareAntisymmetric ==
  (Compared /\ (IsPresent(lastOp.args[3]) <=> IsPresent(lastOp.args[4])))
    => LET ab == lastOp.result[3]
           ba == Exchanged[3]
       IN  /\ ~IsThrow(Exchanged)
           /\ ba.aVsB.cost = RNeg(ab.aVsB.cost)
           /\ ba.aVsB.latency = RNeg(ab.aVsB.latency)
           /\ ba.aVsB.success_rate = RNeg(ab.aVsB.success_rate)
           /\ ba.overallScore = RNeg(ab.overallScore)
           /\ ab.recommendation = "A" <=> ba.recommendation = "B"
           /\ ab.recommendation = "B" <=> ba.recommendation = "A"
           /\ ab.recommendation = "TIE" <=> ba.recommendation = "TIE"

\* two different skills were compared on metrics that differ in success
\* rate, cost and latency, and one of them was recommended
C11_Witness ==
  /\ Compared
  /\ lastOp.args[1] # lastOp.args[2]
  /\ IsPresent(lastOp.args[3]) /\ IsPresent(lastOp.args[4])
  /\ lastOp.result[3].aVsB.cost # Zero
  /\ lastOp.result[3].aVsB.latency # Zero
  /\ lastOp.result[3].aVsB.success_rate # Zero
  /\ lastOp.result[3].recommendation = "B"

\* the success rate, cost and latency compare is said to use for a skill:
\* the metrics supplied for it, and its declared metadata without them
UsedSuccessRate(name, metrics) ==
  IF IsPresent(metrics) THEN ValueOf(metrics).success_rate
  ELSE ValueOf(skills[name].metadata.success_threshold)

UsedCost(name, metrics) ==
  IF IsPresent(metrics) THEN ValueOf(metrics).avg_cost
  ELSE ValueOf(skills[name].metadata.cost_estimate)

UsedLatency(name, metrics) ==
  IF IsPresent(metrics) THEN ValueOf(metrics).avg_latency ELSE Zero

\* a registered skill that declares a cost and a threshold
Declares(name) ==
  /\ IsPresent(skills[name].metadata.success_threshold)
  /\ IsPresent(skills[name].metadata.cost_estimate)

\* C12: for every pair of skills with a declared success_threshold in
\* [0, 1] and cost_estimate >= 0, compare without metrics returns the
\* success_rate delta success_threshold(A) - success_threshold(B), the
\* cost delta cost_estimate(B) - cost_estimate(A) and the latency delta 0;
\* the measured success_rate, avg_cost and avg_latency of a skill are used
\* instead when metrics are supplied for it.
C12_MetadataIsProxy ==
  (Compared /\ Declares(lastOp.args[1]) /\ Declares(lastOp.args[2]))
    => LET nameA == lastOp.args[1]
           nameB == lastOp.args[2]
           metricsA == lastOp.args[3]
           metricsB == lastOp.args[4]
           delta == lastOp.result[3].aVsB
       IN  /\ delta.success_rate
                = RSub(UsedSuccessRate(nameA, metricsA), UsedSuccessRate(nameB, metricsB))
           /\ delta.cost = RSub(UsedCost(nameB, metricsB), UsedCost(nameA, metricsA))
           /\ delta.latency
                = RSub(UsedLatency(nameB, metricsB), UsedLatency(nameA, metricsA))

\* C13: compare('reviewer-llm', 'reviewer-rules') on the metrics the
\* Collector computes from 10 executions each, 9 and 6 of them successes
\* in any order, with the same cost and latency, recommends 'A'; every
\* comparison recommends 'A' exactly when its overallScore > 0.1, 'B'
\* exactly when it is < -0.1 and 'TIE' otherwise, as at 0.1 and -0.1 and
\* for a skill compared with itself on the same inputs.
C13_Recommendation ==
  Compared
    => LET result == lastOp.result[3]
       IN  /\ (/\ lastOp.args[1] = NameReviewerLlm
               /\ lastOp.args[2] = NameReviewerRules
               /\ lastOp.args[3] \in {Val(m) : m \in LlmMetrics}
               /\ lastOp.args[4] \in {Val(m) : m \in RulesMetrics})
                => result.recommendation = "A"
           /\ result.recommendation = "A" <=> RLt(Rat(1, 10), result.overallScore)
           /\ result.recommendation = "B" <=> RLt(result.overallScore, Rat(-1, 10))
           /\ result.recommendation = "TIE"
                <=> (/\ RLe(Rat(-1, 10), result.overallScore)
                     /\ RLe(result.overallScore, Rat(1, 10)))
           /\ (lastOp.args[1] = lastOp.args[2] /\ lastOp.args[3] = lastOp.args[4])
                => result.recommendation = "TIE"

\* the scenario's comparison was made and recommended 'A'
C13_Witness ==
  /\ Compared
  /\ lastOp.args[1] = NameReviewerLlm
  /\ lastOp.args[2] = NameReviewerRules
  /\ lastOp.args[3] \in {Val(m) : m \in LlmMetrics}
  /\ lastOp.args[4] \in {Val(m) : m \in RulesMetrics}
  /\ lastOp.result[3].overallScore = Rat(6, 25)
  /\ lastOp.result[3].recommendation = "A"

\* C22: compare(nameA, nameB, ...) raises an error naming the missing skill
\* whenever nameA or nameB is not registered, nameA being looked up first,
\* with and without metrics, and leaves the registry unchanged.
C22_CompareNotFound ==
  [][lastOp'.op = "compare"
       => /\ skills' = skills /\ intentIndex' = intentIndex /\ statusIndex' = statusIndex
          /\ lastOp'.args[1] \notin DOMAIN skills
               => lastOp'.result = Throws("Error", <<"not found", lastOp'.args[1]>>)
          /\ (lastOp'.args[1] \in DOMAIN skills /\ lastOp'.args[2] \notin DOMAIN skills)
               => lastOp'.result = Throws("Error", <<"not found", lastOp'.args[2]>>)
          /\ (lastOp'.args[1] \in DOMAIN skills /\ lastOp'.args[2] \in DOMAIN skills)
               => ~IsThrow(lastOp'.result)]_vars

\* a comparison with metrics for both, of two names neither of which is
\* registered while another skill is, raised naming the first
C22_Witness ==
  /\ lastOp.op = "compare"
  /\ skills # EmptyMap
  /\ lastOp.args[1] \notin DOMAIN skills /\ lastOp.args[2] \notin DOMAIN skills
  /\ lastOp.args[1] # lastOp.args[2]
  /\ IsPresent(lastOp.args[3]) /\ IsPresent(lastOp.args[4])
  /\ lastOp.result = Throws("Error", <<"not found", lastOp.args[1]>>)

(***************************************************************************)
(* Properties of the lifecycle                                             *)
(***************************************************************************)
\* C21: the status of a registered entry never changes automatically: an
\* entry enters the catalog by register or registerBatch, with the status
\* given to that call (experimental when none was given); while it stays
\* in the catalog no operation of the Registry, the Collector or the
\* Scorer changes its status; it leaves by unregister or clear.
C21_StatusNeverChangesByItself ==
  [][/\ \A n \in DOMAIN skills \cap DOMAIN skills' : skills'[n].status = skills[n].status
     /\ \A n \in DOMAIN skills' \ DOMAIN skills :
          /\ lastOp'.op \in {"register", "registerBatch"}
          /\ skills'[n].status = StatusOf(lastOp'.status)
     /\ \A n \in DOMAIN skills \ DOMAIN skills' :
          lastOp'.op \in {"unregister", "clear"}]_vars

\* a skill registered as production and one registered with no status are
\* in the catalog with these statuses after executions were recorded for
\* the second, the Scorer approved its promotion and the two were compared
C21_Witness ==
  /\ DOMAIN skills = LifecycleNames
  /\ skills[NameReviewerLlm].status = "experimental"
  /\ skills[NameReviewerRules].status = "production"
  /\ lastOp.op = "compare" /\ ~IsThrow(lastOp.result)
  /\ Len(getRecords(records, NameReviewerLlm)) > 0
  /\ lastCalc.op = "calculateMetrics"
  /\ lastEval.op = "canPromote" /\ lastEval.result = Returns("boolean", TRUE)

(***************************************************************************)
(* Properties of validate                                                  *)
(***************************************************************************)
\* how many times an error occurs in a list of errors
Occurrences(errors, e) == Cardinality({k \in 1..Len(errors) : errors[k] = e})

\* C23: for an object input, validate reports exactly one 'Required field
\* ... is missing' error for each of name, version, intent, author and
\* created_at that is absent, undefined or null, none for one that is
\* present, and valid is true exactly when the list of errors is empty.
C23_OneErrorPerMissingField ==
  lastOp.op = "validate"
    => LET obj == ValueOf(lastOp.args[1])
           report == lastOp.result[3]
       IN  /\ \A f \in {"name", "version", "intent", "author", "created_at"} :
                Occurrences(report.errors, <<"required", f>>)
                  = IF obj[f][1] \in {"absent", "undefined", "null"} THEN 1 ELSE 0
           /\ report.valid <=> report.errors = <<>>

\* an object with an undefined intent, a null author and no created_at,
\* whose name is set and whose version is valid, was reported with the
\* three missing fields
C23_Witness ==
  /\ lastOp.op = "validate"
  /\ ValueOf(lastOp.args[1]).name[1] = "val"
  /\ ValueOf(lastOp.args[1]).version = Val(V100)
  /\ ValueOf(lastOp.args[1]).intent = Undefined
  /\ ValueOf(lastOp.args[1]).author = Null
  /\ ValueOf(lastOp.args[1]).created_at = Absent
  /\ ~lastOp.result[3].valid
  /\ Occurrences(lastOp.result[3].errors, <<"required", "intent">>) = 1
  /\ Occurrences(lastOp.result[3].errors, <<"required", "author">>) = 1
  /\ Occurrences(lastOp.result[3].errors, <<"required", "created_at">>) = 1

(***************************************************************************)
(* Properties of the stability score                                       *)
(***************************************************************************)
\* the metrics were just calculated from the stored history of HistoryName
Calculated == lastCalc.op = "calculateMetrics" /\ lastCalc.skillName = HistoryName

StoredHistory == getRecords(records, HistoryName)

\* the success fractions of all contiguous windows of size w of a history
WindowFractions(history, w) ==
  [k \in 1..(Len(history) - w + 1) |->
     Rat(Cardinality({i \in k..(k + w - 1) : history[i].success}), w)]

\* the population variance of a sequence of numbers: the mean of the
\* squares less the square of the mean
PopulationVariance(numbers) ==
  LET n == Rat(Len(numbers), 1)
      mean == RDiv(SumOf(numbers), n)
      meanOfSquares ==
        RDiv(SumOf([k \in 1..Len(numbers) |-> RMul(numbers[k], numbers[k])]), n)
  IN  RSub(meanOfSquares, RMul(mean, mean))

\* score is clamp(1 - sigma, 0, 1) for the sigma of a variance, to the two
\* decimals Math.sqrt is computed to
IsOneLessDeviation(score, variance) ==
  LET sigma == RSub(One, score)
      next == RAdd(sigma, Rat(1, 100))
  IN  /\ RLe(Zero, score) /\ RLe(score, One)
      /\ RLe(RMul(sigma, sigma), variance)
      /\ RLt(variance, RMul(next, next))

C27_OnlyLongHistoriesBelowOne ==
  Calculated
    => LET n == Len(StoredHistory)
           metrics == lastCalc.result[3]
       IN  /\ (1 <= n /\ n <= 10) => metrics.stability_score = One
           /\ RLt(metrics.stability_score, One) => n > 10

\* C27: for a history of 1 to 10 records the stability_score is exactly 1
\* whatever the pattern of successes and failures; a stability_score below
\* 1 takes no record at all or more than 10 records, so with the 10
\* executions the default configuration asks for before a promotion the
\* stability term does not lower the score.
C27_StableUpToTenRecords ==
  Calculated
    => LET n == Len(StoredHistory)
           metrics == lastCalc.result[3]
       IN  /\ (1 <= n /\ n <= 10) => metrics.stability_score = One
           /\ RLt(metrics.stability_score, One) => (n = 0 \/ n > 10)
           /\ n = getDefaultConfig.thresholds.promote.min_executions
                => BalancedScore(metrics)
                     = BalancedScore([metrics EXCEPT !.stability_score = One])

\* the metrics of a history of 10 records, successes and failures, were
\* calculated
C27_Witness ==
  /\ Calculated
  /\ Len(StoredHistory) = 10
  /\ SuccessCount(StoredHistory) = 5
  /\ ~StoredHistory[1].success /\ StoredHistory[2].success
  /\ lastCalc.result[3].stability_score = One

\* C28: under the default configuration no metrics and weight profile get
\* both verdicts: when canPromote returns true shouldRetire is false for
\* the same metrics and weights, and when shouldRetire returns true
\* canPromote is false.
C28_VerdictsExclusive ==
  config = getDefaultConfig
    => /\ (lastEval.op = "canPromote" /\ lastEval.result = Returns("boolean", TRUE))
            => ~shouldRetire(config, lastEval.metrics, lastEval.weights)
       /\ (lastEval.op = "shouldRetire" /\ lastEval.result = Returns("boolean", TRUE))
            => ~canPromote(config, lastEval.metrics, lastEval.weights)
       /\ ~(/\ canPromote(config, lastEval.metrics, lastEval.weights)
            /\ shouldRetire(config, lastEval.metrics, lastEval.weights))

\* under the default configuration canPromote returned true for metrics
\* whose execution count and rollback rate meet the retirement thresholds
C28_Witness ==
  /\ config = getDefaultConfig
  /\ lastEval.op = "canPromote" /\ lastEval.result = Returns("boolean", TRUE)
  /\ lastEval.metrics.execution_count >= config.thresholds.retire.max_executions
  /\ RGe(lastEval.metrics.rollback_rate, config.thresholds.retire.max_rollback_rate)

(***************************************************************************)
(* Properties of the PolicyChecker                                         *)
(***************************************************************************)
\* the command matches a pattern of the blacklist whose action is block
MatchesBlock(request) ==
  \E k \in 1..Len(policyConfig.dangerous_commands) :
     /\ policyConfig.dangerous_commands[k].action = "block"
     /\ PatternTestI(policyConfig.dangerous_commands[k].pattern, CommandOf(request))

\* C24: for a blacklist with its patterns and actions in any order, check
\* returns allowed = false for every request whose command matches at
\* least one pattern whose action is block, creates no approval request
\* for it and does not count it in the execution statistics.
C24_BlockAlwaysBlocks ==
  [][(lastPolicy'.op = "check" /\ MatchesBlock(lastPolicy'.request))
       => /\ ~lastPolicy'.result.allowed
          /\ pendingApprovals' = pendingApprovals
          /\ executionStats' = executionStats]_vars

\* C25: approve(id, decision) returns true only if id is pending and not
\* expired and decision is true; every approve call on a pending id,
\* approving, rejecting or expired, removes it from the pending set; an id
\* that left the pending set is never pending again, so at most one
\* approve call per request returns true and later calls return false.
C25_ApproveAtMostOnce ==
  [][/\ lastPolicy'.op = "approve"
          => LET requestId == lastPolicy'.requestId
                 decision == lastPolicy'.approved
             IN  /\ lastPolicy'.returned
                      <=> /\ requestId \in DOMAIN pendingApprovals
                          /\ ~(now > pendingApprovals[requestId].expires_at)
                          /\ decision
                 /\ requestId \notin DOMAIN pendingApprovals'
                 /\ \A id \in DOMAIN pendingApprovals \ {requestId} :
                      /\ id \in DOMAIN pendingApprovals'
                      /\ pendingApprovals'[id] = pendingApprovals[id]
     /\ \A id \in DOMAIN pendingApprovals' \ DOMAIN pendingApprovals :
          /\ lastPolicy'.op = "check"
          /\ id = nextId /\ nextId' > id
     /\ \A id \in DOMAIN pendingApprovals : id < nextId]_vars

\* a second approve call for a request that was approved returned false
\* while another request is pending
C25_Witness ==
  /\ lastPolicy.op = "approve"
  /\ lastPolicy.requestId = 1 /\ lastPolicy.approved
  /\ ~lastPolicy.returned
  /\ nextId > 2
  /\ DOMAIN pendingApprovals = {2}
  /\ ~(now > pendingApprovals[2].expires_at)

\* the statistics check starts from: an elapsed window restarts at zero
WindowsAt(stats, t) == updateTimeWindows(stats, t)

CostOf(request) ==
  IF request.estimated_cost[1] = "val" THEN ValueOf(request.estimated_cost) ELSE 0

C30_OvershootBelowOneTask ==
  LET limits == policyConfig.limits
  IN  /\ executionStats.cost.hourly < limits.max_cost_per_hour + limits.max_cost_per_task
      /\ executionStats.cost.daily < limits.max_cost_per_day + limits.max_cost_per_task

\* a request was allowed that took the hourly cost over max_cost_per_hour
\* and the daily cost over max_cost_per_day
C30_Witness ==
  /\ lastPolicy.op = "check"
  /\ lastPolicy.result.allowed
  /\ executionStats.cost.hourly > policyConfig.limits.max_cost_per_hour
  /\ executionStats.cost.daily > policyConfig.limits.max_cost_per_day

====
